---- MODULE Spec2Model ----
(***************************************************************************)
(* Source / Lexer / Parser pipeline of ml-graphql.                         *)
(*                                                                         *)
(* A text is a sequence of UTF-16 code units (integers), positions are     *)
(* 0-based as in the JavaScript source.  A read beyond the end of a text   *)
(* (charCodeAt giving NaN) is the value NaN.                                *)
(***************************************************************************)
EXTENDS Integers, Sequences, FiniteSets, TLC

VARIABLES
  body,       \* Source.body: the text handed to the Lexer / the parser
  options,    \* the options object handed to the Lexer
  lexer,      \* the caller's Lexer: token, lastToken, line, lineStart
  rawString,  \* the argument of a direct blockStringValue call
  request,    \* the arguments of a call of the executor
  result      \* what the last call returned or threw

vars == <<body, options, lexer, rawString, request, result>>

(***************************************************************************)
(* Bounds of the model.                                                    *)
(***************************************************************************)
MaxLen == 4        \* longest text of the character-level lexer inputs
MaxNumLen == 5     \* longest text of the number inputs
MaxStrLen == 4     \* longest text of the string inputs
MaxRawLen == 5     \* longest raw block string handed to blockStringValue
MaxIgnored == 2    \* most ignored characters put before a control character
MaxLine == 4       \* the lexer's line counter is followed up to here

(***************************************************************************)
(* JavaScript values.                                                      *)
(***************************************************************************)
NaN == -1
Undefined == [kind |-> "undefined"]

\* body.charCodeAt(pos)
charCodeAt(text, pos) ==
  IF pos >= 0 /\ pos < Len(text) THEN text[pos + 1] ELSE NaN

\* text.slice(from, to) of String.prototype, 0 <= from
StringSlice(text, from, to) ==
  IF to > Len(text)
    THEN SubSeq(text, from + 1, Len(text))
    ELSE SubSeq(text, from + 1, to)

RECURSIVE JoinComma(_)
\* Array.prototype.join / toString of an array of one-character strings
JoinComma(chars) ==
  IF Len(chars) = 0 THEN <<>>
  ELSE IF Len(chars) = 1 THEN chars
  ELSE <<chars[1], 44>> \o JoinComma(Tail(chars))

\* A JavaScript value that is either a string or an array of one-character
\* strings; chars holds the code units either way.
StringValue(chars) == [kind |-> "string", chars |-> chars]
ArrayValue(chars) == [kind |-> "array", chars |-> chars]

\* slice.call(body, from, to) with slice = Array.prototype.slice: the result
\* is an Array of the one-character strings, not a String.
slice(text, from, to) == ArrayValue(StringSlice(text, from, to))

\* String(value) / value.toString() / `${value}` / '' + value
toString(value) ==
  IF value.kind = "array" THEN JoinComma(value.chars) ELSE value.chars

\* value === 'literal' for a string literal given as code units
StrictEquals(value, chars) ==
  value.kind = "string" /\ value.chars = chars

\* truthiness of a token value
Truthy(value) ==
  CASE value.kind = "undefined" -> FALSE
    [] value.kind = "null" -> FALSE
    [] value.kind = "array" -> TRUE
    [] value.kind = "object" -> TRUE
    [] OTHER -> Len(value.chars) > 0

HexDigitLower(n) == IF n < 10 THEN 48 + n ELSE 87 + n
HexDigitUpper(n) == IF n < 10 THEN 48 + n ELSE 55 + n

\* JSON.stringify(String.fromCharCode(code)) for code < 0x7f
JSONStringify(code) ==
  <<34>> \o
  (CASE code = 34 -> <<92, 34>>
     [] code = 92 -> <<92, 92>>
     [] code = 8 -> <<92, 98>>
     [] code = 12 -> <<92, 102>>
     [] code = 10 -> <<92, 110>>
     [] code = 13 -> <<92, 114>>
     [] code = 9 -> <<92, 116>>
     [] code < 32 /\ code \notin {8, 9, 10, 12, 13} ->
          <<92, 117, 48, 48, HexDigitLower(code \div 16), HexDigitLower(code % 16)>>
     [] OTHER -> <<code>>)
  \o <<34>>

RECURSIVE toUpperHex(_)
\* code.toString(16).toUpperCase()
toUpperHex(n) ==
  IF n < 16 THEN <<HexDigitUpper(n)>>
  ELSE toUpperHex(n \div 16) \o <<HexDigitUpper(n % 16)>>

\* text.slice(-n)
SliceLast(text, n) ==
  IF Len(text) <= n THEN text ELSE SubSeq(text, Len(text) - n + 1, Len(text))

\* printCharCode(code)
printCharCode(code) ==
  IF code = NaN THEN <<60, 69, 79, 70, 62>>          \* TokenKind.EOF
  ELSE IF code < 127 THEN JSONStringify(code)
  ELSE <<34, 92, 117>> \o SliceLast(<<48, 48>> \o toUpperHex(code), 4) \o <<34>>

(***************************************************************************)
(* Errors.  A thrown error is a record; message.prefix, message.text and   *)
(* message.args are the parts the message template concatenates.           *)
(***************************************************************************)
\* syntaxError(source, position, description)
syntaxError(position, text, args) ==
  [kind |-> "error", name |-> "GraphQLError",
   message |-> [prefix |-> "Syntax Error: ", text |-> text, args |-> args],
   positions |-> position]

\* calling the undefined import blockStringValue
NotAFunction(what) ==
  [kind |-> "error", name |-> "TypeError",
   message |-> [prefix |-> "", text |-> "is not a function", args |-> <<what>>],
   positions |-> Undefined]

(***************************************************************************)
(* Tokens.                                                                 *)
(***************************************************************************)
TokenKind ==
  [SOF |-> "<SOF>", EOF |-> "<EOF>", BANG |-> "!", DOLLAR |-> "$",
   AMP |-> "&", PAREN_L |-> "(", PAREN_R |-> ")", SPREAD |-> "...",
   COLON |-> ":", EQUALS |-> "=", AT |-> "@", BRACKET_L |-> "[",
   BRACKET_R |-> "]", BRACE_L |-> "{", PIPE |-> "|", BRACE_R |-> "}",
   NAME |-> "Name", INT |-> "Int", FLOAT |-> "Float", STRING |-> "String",
   BLOCK_STRING |-> "BlockString", COMMENT |-> "Comment"]

Null == [kind |-> "null"]

\* new Token(kind, start, end, line, column, prev, value); next starts null.
\* prev is the back link of the chain and is read nowhere; it is left out.
Token(kind, start, end, line, column, value) ==
  [kind |-> kind, start |-> start, end |-> end, line |-> line,
   column |-> column, next |-> Null, value |-> value]

\* Token.getTokenDesc(): the kind, and the value in quotes when it is truthy
getTokenDesc(token) ==
  IF Truthy(token.value)
    THEN [kind |-> token.kind, quoted |-> toString(token.value)]
    ELSE [kind |-> token.kind, quoted |-> Undefined]

\* what a reader function gives back: a token, or a thrown error
Returned(token) == [threw |-> FALSE, token |-> token]
Thrown(error) == [threw |-> TRUE, error |-> error]

(***************************************************************************)
(* Lexer: the reader functions.                                            *)
(***************************************************************************)
RECURSIVE positionAfterWhitespace(_, _, _, _)
\* positionAfterWhitespace(body, startPosition, lexer): the position of the
\* next non-ignored character, with the lexer's line and lineStart as the
\* loop leaves them.
positionAfterWhitespace(text, position, line, lineStart) ==
  IF position < Len(text)
    THEN LET code == charCodeAt(text, position) IN
         IF code = 9 \/ code = 32 \/ code = 44 \/ code = 65279
           THEN positionAfterWhitespace(text, position + 1, line, lineStart)
         ELSE IF code = 10
           THEN positionAfterWhitespace(text, position + 1, line + 1, position + 1)
         ELSE IF code = 13
           THEN IF charCodeAt(text, position + 1) = 10
                  THEN positionAfterWhitespace(text, position + 2, line + 1, position + 2)
                  ELSE positionAfterWhitespace(text, position + 1, line + 1, position + 1)
         ELSE [pos |-> position, line |-> line, lineStart |-> lineStart]
    ELSE [pos |-> position, line |-> line, lineStart |-> lineStart]

\* unexpectedCharacterMessage without its first branch
unexpectedCharacterMessage_NoControlBranch(code) ==
  IF code = 39
    THEN [text |-> "Unexpected single quote character ('), did you mean to use a double quote (\")?",
          args |-> <<>>]
  ELSE [text |-> "Cannot parse the unexpected character %1.",
        args |-> <<printCharCode(code)>>]

\* unexpectedCharacterMessage(code): the text and the printed character
unexpectedCharacterMessage(code) ==
  IF code < 32 /\ code # 9 /\ code # 10 /\ code # 13
    THEN [text |-> "Cannot contain the invalid character %1.",
          args |-> <<printCharCode(code)>>]
  ELSE IF code = 39
    THEN [text |-> "Unexpected single quote character ('), did you mean to use a double quote (\")?",
          args |-> <<>>]
  ELSE [text |-> "Cannot parse the unexpected character %1.",
        args |-> <<printCharCode(code)>>]

RECURSIVE CommentEnd(_, _)
\* the do-while of readComment: the first position after start whose
\* character is a line terminator, another control character, or missing
CommentEnd(text, position) ==
  LET next == position + 1
      code == charCodeAt(text, next) IN
  IF code > 31 \/ code = 9 THEN CommentEnd(text, next) ELSE next

\* readComment(source, start, line, col, prev)
readComment(text, start, line, col) ==
  LET position == CommentEnd(text, start) IN
  Returned(Token(TokenKind.COMMENT, start, position, line, col,
                 slice(text, start + 1, position)))

IsNameContinue(code) ==
  \/ code = 95
  \/ (code >= 48 /\ code <= 57)
  \/ (code >= 65 /\ code <= 90)
  \/ (code >= 97 /\ code <= 122)

RECURSIVE NameEnd(_, _)
\* the while of readName
NameEnd(text, position) ==
  IF position # Len(text) /\ IsNameContinue(charCodeAt(text, position))
    THEN NameEnd(text, position + 1)
    ELSE position

\* readName(source, start, line, col, prev)
readName(text, start, line, col) ==
  LET position == NameEnd(text, start + 1) IN
  Returned(Token(TokenKind.NAME, start, position, line, col,
                 slice(text, start, position)))

IsDigit(code) == code >= 48 /\ code <= 57

RECURSIVE DigitsEnd(_, _)
\* the do-while of readDigits, entered at a digit
DigitsEnd(text, position) ==
  LET next == position + 1 IN
  IF IsDigit(charCodeAt(text, next)) THEN DigitsEnd(text, next) ELSE next

\* readDigits(source, start, firstCode): the position after the digits, or
\* the error thrown when firstCode is no digit
readDigits(text, start, firstCode) ==
  IF IsDigit(firstCode)
    THEN [threw |-> FALSE, position |-> DigitsEnd(text, start)]
    ELSE Thrown(syntaxError(start,
                  "Invalid number, expected digit but got: %1.",
                  <<printCharCode(firstCode)>>))

\* readNumber, the exponent part: position is at code, after the fraction
readNumberExponent(text, start, position, code, isFloat, line, col) ==
  IF code = 69 \/ code = 101
    THEN LET p1 == position + 1
             c1 == charCodeAt(text, p1)
             signed == (c1 = 43 \/ c1 = 45)
             p2 == IF signed THEN p1 + 1 ELSE p1
             c2 == IF signed THEN charCodeAt(text, p2) ELSE c1
             digits == readDigits(text, p2, c2) IN
         IF digits.threw THEN digits
         ELSE Returned(Token(TokenKind.FLOAT, start, digits.position, line, col,
                             slice(text, start, digits.position)))
    ELSE Returned(Token(IF isFloat THEN TokenKind.FLOAT ELSE TokenKind.INT,
                        start, position, line, col,
                        slice(text, start, position)))

\* readNumberFraction that forgets isFloat = true after the fraction
readNumberFraction_KeepsInt(text, start, position, code, line, col) ==
  IF code = 46
    THEN readNumberExponent(text, start,
           readDigits(text, position + 1, charCodeAt(text, position + 1)).position,
           charCodeAt(text,
             readDigits(text, position + 1, charCodeAt(text, position + 1)).position),
           FALSE, line, col)
    ELSE readNumberExponent(text, start, position, code, FALSE, line, col)

\* readNumber, the fraction part: position is at code, after the integer part
readNumberFraction(text, start, position, code, line, col) ==
  IF code = 46
    THEN LET p1 == position + 1
             digits == readDigits(text, p1, charCodeAt(text, p1)) IN
         IF digits.threw THEN digits
         ELSE readNumberExponent(text, start, digits.position,
                                 charCodeAt(text, digits.position), TRUE, line, col)
    ELSE readNumberExponent(text, start, position, code, FALSE, line, col)

\* readNumber without the check of the character after a leading 0
readNumber_NoZeroCheck(text, start, firstCode, line, col) ==
  LET p1 == IF firstCode = 45 THEN start + 1 ELSE start
      c1 == IF firstCode = 45 THEN charCodeAt(text, p1) ELSE firstCode
      digits == readDigits(text, p1, c1) IN
  IF digits.threw THEN digits
  ELSE readNumberFraction(text, start, digits.position,
                          charCodeAt(text, digits.position), line, col)

\* readNumber(source, start, firstCode, line, col, prev)
readNumber(text, start, firstCode, line, col) ==
  LET negative == (firstCode = 45)
      p1 == IF negative THEN start + 1 ELSE start
      c1 == IF negative THEN charCodeAt(text, p1) ELSE firstCode IN
  IF c1 = 48
    THEN LET p2 == p1 + 1
             c2 == charCodeAt(text, p2) IN
         IF IsDigit(c2)
           THEN Thrown(syntaxError(p2,
                         "Invalid number, unexpected digit after 0: %1.",
                         <<printCharCode(c2)>>))
           ELSE readNumberFraction(text, start, p2, c2, line, col)
    ELSE LET digits == readDigits(text, p1, c1) IN
         IF digits.threw THEN digits
         ELSE readNumberFraction(text, start, digits.position,
                                 charCodeAt(text, digits.position), line, col)

\* char2hex(a)
char2hex(a) ==
  IF a >= 48 /\ a <= 57 THEN a - 48
  ELSE IF a >= 65 /\ a <= 70 THEN a - 55
  ELSE IF a >= 97 /\ a <= 102 THEN a - 87
  ELSE -1

\* uniCharCode(a, b, c, d): the 32-bit shifts and ors of the four digits; an
\* operand of -1 leaves the sign bit set, so the whole is negative.
uniCharCode(a, b, c, d) ==
  LET ha == char2hex(a)
      hb == char2hex(b)
      hc == char2hex(c)
      hd == char2hex(d) IN
  IF ha < 0 \/ hb < 0 \/ hc < 0 \/ hd < 0
    THEN -1
    ELSE ha * 4096 + hb * 256 + hc * 16 + hd

\* String.fromCharCode(code): NaN is converted to 0
fromCharCode(code) == IF code = NaN THEN 0 ELSE code

\* the character an escape letter of readString's switch stands for
EscapedChar(code) ==
  CASE code = 34 -> 34
    [] code = 47 -> 47
    [] code = 92 -> 92
    [] code = 98 -> 8
    [] code = 102 -> 12
    [] code = 110 -> 10
    [] code = 114 -> 13
    [] code = 116 -> 9

RECURSIVE readStringLoop(_, _, _, _, _, _, _)
\* the while of readString with its locals position, chunkStart and value;
\* value += slice.call(...) appends the chunk array converted to a string
readStringLoop(text, start, position, chunkStart, value, line, col) ==
  LET code == charCodeAt(text, position) IN
  IF position < Len(text) /\ code # 10 /\ code # 13
    THEN IF code = 34
           THEN Returned(Token(TokenKind.STRING, start, position + 1, line, col,
                   StringValue(value \o toString(slice(text, chunkStart, position)))))
         ELSE IF code < 32 /\ code # 9
           THEN Thrown(syntaxError(position,
                         "Invalid character within String: %1.",
                         <<printCharCode(code)>>))
         ELSE IF code = 92
           THEN LET p1 == position + 1
                    v1 == value \o toString(slice(text, chunkStart, p1 - 1))
                    esc == charCodeAt(text, p1) IN
                IF esc \in {34, 47, 92, 98, 102, 110, 114, 116}
                  THEN readStringLoop(text, start, p1 + 1, p1 + 1,
                                      v1 \o <<EscapedChar(esc)>>, line, col)
                ELSE IF esc = 117
                  THEN LET charCode == uniCharCode(charCodeAt(text, p1 + 1),
                                                   charCodeAt(text, p1 + 2),
                                                   charCodeAt(text, p1 + 3),
                                                   charCodeAt(text, p1 + 4)) IN
                       IF charCode < 0
                         THEN Thrown(syntaxError(p1,
                                "Invalid character escape sequence: \\u%1.",
                                <<StringSlice(text, p1 + 1, p1 + 5)>>))
                         ELSE readStringLoop(text, start, p1 + 5, p1 + 5,
                                             v1 \o <<charCode>>, line, col)
                ELSE Thrown(syntaxError(p1,
                              "Invalid character escape sequence: \\%1.",
                              <<<<fromCharCode(esc)>>>>))
         ELSE readStringLoop(text, start, position + 1, chunkStart, value, line, col)
    ELSE Thrown(syntaxError(position, "Unterminated string.", <<>>))

\* readString with position starting at the opening quote, not after it
readString_FromQuote(text, start, line, col) ==
  readStringLoop(text, start, start, start, <<>>, line, col)

\* readString(source, start, line, col, prev)
readString(text, start, line, col) ==
  readStringLoop(text, start, start + 1, start + 1, <<>>, line, col)

(***************************************************************************)
(* Block strings.                                                          *)
(***************************************************************************)
RECURSIVE SplitLines(_, _)
\* rawString.split(/\r\n|[\n\r]/g): current is the line being collected
SplitLines(text, current) ==
  IF Len(text) = 0 THEN <<current>>
  ELSE IF text[1] = 13 /\ Len(text) > 1 /\ text[2] = 10
    THEN <<current>> \o SplitLines(SubSeq(text, 3, Len(text)), <<>>)
  ELSE IF text[1] = 10 \/ text[1] = 13
    THEN <<current>> \o SplitLines(Tail(text), <<>>)
  ELSE SplitLines(Tail(text), Append(current, text[1]))

RECURSIVE leadingWhitespaceFrom(_, _)
leadingWhitespaceFrom(str, i) ==
  IF i < Len(str) /\ (str[i + 1] = 32 \/ str[i + 1] = 9)
    THEN leadingWhitespaceFrom(str, i + 1)
    ELSE i

\* leadingWhitespace(str)
leadingWhitespace(str) == leadingWhitespaceFrom(str, 0)

\* isBlank(str)
isBlank(str) == leadingWhitespace(str) = Len(str)

NoIndent == -1     \* commonIndent === null

RECURSIVE commonIndentLoop(_, _, _)
\* the first for loop of blockStringValue, i counting the lines from 0
commonIndentLoop(lines, i, commonIndent) ==
  IF i < Len(lines)
    THEN LET line == lines[i + 1]
             indent == leadingWhitespace(line) IN
         IF indent < Len(line) /\ (commonIndent = NoIndent \/ indent < commonIndent)
           THEN IF indent = 0 THEN 0
                ELSE commonIndentLoop(lines, i + 1, indent)
           ELSE commonIndentLoop(lines, i + 1, commonIndent)
    ELSE commonIndent

\* removeIndent with its loop starting at the first line
removeIndent_FromFirstLine(lines, commonIndent) ==
  IF commonIndent # NoIndent /\ commonIndent # 0
    THEN [i \in 1 .. Len(lines) |->
            StringSlice(lines[i], commonIndent, Len(lines[i]))]
    ELSE lines

\* the second for loop of blockStringValue: lines[i].slice(commonIndent)
\* for every line but the first, when commonIndent is neither null nor 0
removeIndent(lines, commonIndent) ==
  IF commonIndent # NoIndent /\ commonIndent # 0
    THEN [i \in 1 .. Len(lines) |->
            IF i = 1 THEN lines[i]
            ELSE StringSlice(lines[i], commonIndent, Len(lines[i]))]
    ELSE lines

RECURSIVE shiftBlank(_)
\* while (lines.length > 0 && isBlank(lines[0])) lines.shift()
shiftBlank(lines) ==
  IF Len(lines) > 0 /\ isBlank(lines[1]) THEN shiftBlank(Tail(lines)) ELSE lines

RECURSIVE popBlank(_)
\* while (lines.length > 0 && isBlank(lines[lines.length - 1])) lines.pop()
popBlank(lines) ==
  IF Len(lines) > 0 /\ isBlank(lines[Len(lines)])
    THEN popBlank(SubSeq(lines, 1, Len(lines) - 1))
    ELSE lines

RECURSIVE joinLF(_)
\* lines.join('\n')
joinLF(lines) ==
  IF Len(lines) = 0 THEN <<>>
  ELSE IF Len(lines) = 1 THEN lines[1]
  ELSE lines[1] \o <<10>> \o joinLF(Tail(lines))

\* blockStringValue(rawString)
blockStringValue(raw) ==
  LET lines == SplitLines(raw, <<>>)
      commonIndent == commonIndentLoop(lines, 1, NoIndent) IN
  joinLF(popBlank(shiftBlank(removeIndent(lines, commonIndent))))

\* The names the module of blockStringValue gives to require(): the file
\* assigns its functions to module.export, so module.exports stays empty.
blockStringValueExports == {}

RECURSIVE readBlockStringLoop(_, _, _, _, _, _, _)
\* the while of readBlockString with its locals position, chunkStart, rawValue
readBlockStringLoop(text, start, position, chunkStart, rawValue, line, col) ==
  LET code == charCodeAt(text, position) IN
  IF position < Len(text)
    THEN IF code = 34 /\ charCodeAt(text, position + 1) = 34
                      /\ charCodeAt(text, position + 2) = 34
           THEN LET raw == rawValue \o toString(slice(text, chunkStart, position)) IN
                IF "blockStringValue" \in blockStringValueExports
                  THEN Returned(Token(TokenKind.BLOCK_STRING, start, position + 3,
                                      line, col, StringValue(blockStringValue(raw))))
                  ELSE Thrown(NotAFunction("blockStringValue"))
         ELSE IF code < 32 /\ code # 9 /\ code # 10 /\ code # 13
           THEN Thrown(syntaxError(position,
                         "Invalid character within String: %1.",
                         <<printCharCode(code)>>))
         ELSE IF code = 92 /\ charCodeAt(text, position + 1) = 34
                           /\ charCodeAt(text, position + 2) = 34
                           /\ charCodeAt(text, position + 3) = 34
           THEN readBlockStringLoop(text, start, position + 4, position + 4,
                  rawValue \o toString(slice(text, chunkStart, position))
                           \o <<34, 34, 34>>,
                  line, col)
         ELSE readBlockStringLoop(text, start, position + 1, chunkStart,
                                  rawValue, line, col)
    ELSE Thrown(syntaxError(position, "Unterminated string.", <<>>))

\* readBlockString(source, start, line, col, prev)
readBlockString(text, start, line, col) ==
  readBlockStringLoop(text, start, start + 3, start + 3, <<>>, line, col)

(***************************************************************************)
(* Lexer: readToken, lookahead, advance.                                   *)
(***************************************************************************)
IsNameStart(code) ==
  \/ (code >= 65 /\ code <= 90)
  \/ code = 95
  \/ (code >= 97 /\ code <= 122)

\* the switch of readToken at position pos
readTokenAt(text, pos, code, line, col) ==
  CASE code = 33 -> Returned(Token(TokenKind.BANG, pos, pos + 1, line, col, Undefined))
    [] code = 35 -> readComment(text, pos, line, col)
    [] code = 36 -> Returned(Token(TokenKind.DOLLAR, pos, pos + 1, line, col, Undefined))
    [] code = 38 -> Returned(Token(TokenKind.AMP, pos, pos + 1, line, col, Undefined))
    [] code = 40 -> Returned(Token(TokenKind.PAREN_L, pos, pos + 1, line, col, Undefined))
    [] code = 41 -> Returned(Token(TokenKind.PAREN_R, pos, pos + 1, line, col, Undefined))
    [] code = 46 /\ charCodeAt(text, pos + 1) = 46 /\ charCodeAt(text, pos + 2) = 46 ->
         Returned(Token(TokenKind.SPREAD, pos, pos + 3, line, col, Undefined))
    [] code = 58 -> Returned(Token(TokenKind.COLON, pos, pos + 1, line, col, Undefined))
    [] code = 61 -> Returned(Token(TokenKind.EQUALS, pos, pos + 1, line, col, Undefined))
    [] code = 64 -> Returned(Token(TokenKind.AT, pos, pos + 1, line, col, Undefined))
    [] code = 91 -> Returned(Token(TokenKind.BRACKET_L, pos, pos + 1, line, col, Undefined))
    [] code = 93 -> Returned(Token(TokenKind.BRACKET_R, pos, pos + 1, line, col, Undefined))
    [] code = 123 -> Returned(Token(TokenKind.BRACE_L, pos, pos + 1, line, col, Undefined))
    [] code = 124 -> Returned(Token(TokenKind.PIPE, pos, pos + 1, line, col, Undefined))
    [] code = 125 -> Returned(Token(TokenKind.BRACE_R, pos, pos + 1, line, col, Undefined))
    [] IsNameStart(code) -> readName(text, pos, line, col)
    [] code = 45 \/ IsDigit(code) -> readNumber(text, pos, code, line, col)
    [] code = 34 ->
         IF charCodeAt(text, pos + 1) = 34 /\ charCodeAt(text, pos + 2) = 34
           THEN readBlockString(text, pos, line, col)
           ELSE readString(text, pos, line, col)
    [] OTHER ->
         LET m == unexpectedCharacterMessage(code) IN
         Thrown(syntaxError(pos, m.text, m.args))

\* readToken after its call of positionAfterWhitespace, whose outcome is ws
readTokenFrom(text, ws) ==
  [read |-> IF ws.pos >= Len(text)
              THEN Returned(Token(TokenKind.EOF, Len(text), Len(text), ws.line,
                                  1 + ws.pos - ws.lineStart, Undefined))
              ELSE readTokenAt(text, ws.pos, charCodeAt(text, ws.pos), ws.line,
                               1 + ws.pos - ws.lineStart),
   line |-> ws.line, lineStart |-> ws.lineStart]

\* readToken(lexer, prev): what it returns or throws, and the lexer's line
\* and lineStart as positionAfterWhitespace left them
readToken(text, line, lineStart, prev) ==
  readTokenFrom(text, positionAfterWhitespace(text, prev.end, line, lineStart))

\* new Lexer(source, options)
NewLexer ==
  [lastToken |-> Token(TokenKind.SOF, 0, 0, 0, 0, Undefined),
   token |-> Token(TokenKind.SOF, 0, 0, 0, 0, Undefined),
   line |-> 1, lineStart |-> 0]

RECURSIVE lookaheadLoop(_, _, _, _)

\* the while condition of Lexer.lookahead that never loops
lookaheadWhile_Once(text, r) == r

\* the while condition of Lexer.lookahead after one round that gave r
lookaheadWhile(text, r) ==
  IF ~r.read.threw /\ r.read.token.kind = TokenKind.COMMENT
    THEN lookaheadLoop(text, r.read.token, r.line, r.lineStart)
    ELSE r

\* the do-while of Lexer.lookahead: token = token.next || readToken(this, token)
lookaheadLoop(text, token, line, lineStart) ==
  lookaheadWhile(text,
    IF token.next.kind # "null"
      THEN [read |-> Returned(token.next), line |-> line, lineStart |-> lineStart]
      ELSE readToken(text, line, lineStart, token))

\* the lexer after a lookahead that makes the token it read the current one
lookaheadDone_Commits(lx, r) ==
  [read |-> r.read,
   lexer |-> [lx EXCEPT !.line = r.line, !.lineStart = r.lineStart,
                        !.token = IF r.read.threw THEN lx.token
                                  ELSE r.read.token]]

\* the lexer after a lookahead whose loop ended as r
lookaheadDone(lx, r) ==
  [read |-> r.read,
   lexer |-> [lx EXCEPT !.line = r.line, !.lineStart = r.lineStart]]

\* Lexer.lookahead(): what it returns or throws, and the lexer afterwards
lookahead(text, lx) ==
  IF lx.token.kind # TokenKind.EOF
    THEN lookaheadDone(lx, lookaheadLoop(text, lx.token, lx.line, lx.lineStart))
    ELSE [read |-> Returned(lx.token), lexer |-> lx]

\* this.token = <what lookahead() gave>, skipped when it threw
advanceDone(r) ==
  IF r.read.threw
    THEN r
    ELSE [read |-> r.read, lexer |-> [r.lexer EXCEPT !.token = r.read.token]]

\* Lexer.advance() without its assignment of lastToken
advance_KeepsLastToken(text, lx) == advanceDone(lookahead(text, lx))

\* Lexer.advance(): lastToken is assigned before lookahead() runs, token after
\* it returned
advance(text, lx) ==
  advanceDone(lookahead(text, [lx EXCEPT !.lastToken = lx.token]))

(***************************************************************************)
(* The calls a user of the library makes.                                  *)
(***************************************************************************)
\* all texts over an alphabet up to a length
Texts(alphabet, maxLen) == UNION {[1 .. n -> alphabet] : n \in 0 .. maxLen}

NoOptions ==
  [noLocation |-> FALSE, experimentalFragmentVariables |-> FALSE,
   allowLegacySDLImplementsInterfaces |-> FALSE,
   allowLegacySDLEmptyFields |-> FALSE]

NoResult == [op |-> "none"]

\* what a call left behind: the call, the token that was current when it was
\* made, and the token it returned or the error it threw
CallResult(op, from, read) ==
  [op |-> op, from |-> from, threw |-> read.threw,
   value |-> IF read.threw THEN read.error ELSE read.token]

\* lexer.advance()
Advance ==
  /\ lexer.line < MaxLine
  /\ \E r \in {advance(body, lexer)} :
       /\ lexer' = r.lexer
       /\ result' = CallResult("advance", lexer.token, r.read)
  /\ UNCHANGED <<body, options, rawString, request>>

\* lexer.lookahead()
Lookahead ==
  /\ lexer.line < MaxLine
  /\ \E r \in {lookahead(body, lexer)} :
       /\ lexer' = r.lexer
       /\ result' = CallResult("lookahead", lexer.token, r.read)
  /\ UNCHANGED <<body, options, rawString, request>>

\* blockStringValue(rawString), called on its own
CallBlockStringValue ==
  /\ result' = [op |-> "blockStringValue", threw |-> FALSE,
                value |-> blockStringValue(rawString)]
  /\ UNCHANGED <<body, options, lexer, rawString, request>>

\* no call of the executor
NoRequest == [op |-> "none"]

InitWith(texts) ==
  /\ body \in texts
  /\ options = NoOptions
  /\ lexer = NewLexer
  /\ rawString = <<>>
  /\ request = NoRequest
  /\ result = NoResult

\* Texts of the lexer: ignored characters, line breaks, a comment, a name, a
\* punctuator and a control character.
LexAlphabet == {7, 10, 13, 32, 35, 97, 123}

\* the characters positionAfterWhitespace passes over
Ignored == {9, 10, 13, 32, 44, 65279}

\* Texts that put each character below 0x20 after up to MaxIgnored ignored
\* characters, alone or followed by a letter.
ControlTexts ==
  {ws \o <<c>> \o rest :
     ws \in Texts(Ignored, MaxIgnored), c \in 0 .. 31, rest \in Texts({97}, 1)}

Init == InitWith(Texts(LexAlphabet, MaxLen) \cup ControlTexts)

Next == Advance \/ Lookahead

Spec == Init /\ [][Next]_vars

(***************************************************************************)
(* Claims about the first token of a text.                                 *)
(***************************************************************************)
\* the result is that of an advance() made while the current token was SOF
FirstAdvance == result.op = "advance" /\ result.from.kind = TokenKind.SOF

\* the offset of the first character that is not ignored (the length of the
\* text when there is none)
FirstSignificant(text) ==
  CHOOSE p \in 0 .. Len(text) :
    /\ \A q \in 1 .. p : text[q] \in Ignored
    /\ p < Len(text) => text[p + 1] \notin Ignored

IsInvalidControl(code) == code \in (0 .. 31) \ {9, 10, 13}

IsSyntaxError(r, text) ==
  /\ r.threw
  /\ r.value.name = "GraphQLError"
  /\ r.value.message.prefix = "Syntax Error: "
  /\ r.value.message.text = text

\* C1: when the first character after the ignored ones is a control character
\* below 0x20 other than tab, LF and CR, advance() returns no token and throws
\* 'Syntax Error: Cannot contain the invalid character <escaped char>.' at the
\* offset of that character; for the text U+0007 the character is printed as
\* "\u0007" and the offset is 0.
C1_InvalidControlCharacter ==
  LET p == FirstSignificant(body) IN
  (FirstAdvance /\ p < Len(body) /\ IsInvalidControl(body[p + 1])) =>
    /\ IsSyntaxError(result, "Cannot contain the invalid character %1.")
    /\ result.value.positions = p
    /\ LET printed == result.value.message.args[1] IN
         /\ Len(printed) >= 4
         /\ printed[1] = 34 /\ printed[2] = 92 /\ printed[Len(printed)] = 34
         /\ body = <<7>> =>
              /\ printed = <<34, 92, 117, 48, 48, 48, 55, 34>>
              /\ result.value.positions = 0

\* C1 witness: a control character found after ignored characters
C1_Witness ==
  /\ FirstAdvance
  /\ IsSyntaxError(result, "Cannot contain the invalid character %1.")
  /\ result.value.positions = 2
  /\ body[3] = 7

(***************************************************************************)
(* Numbers.                                                                *)
(***************************************************************************)
NumAlphabet == {43, 45, 46, 48, 49, 101}

\* 123, 1.5e10, 007, 00, -01, 1E5, -0.5E+1, 1a, 0x, 1.5.5, 1e5e5
NumberExamples ==
  {<<49, 50, 51>>, <<49, 46, 53, 101, 49, 48>>, <<48, 48, 55>>, <<48, 48>>,
   <<45, 48, 49>>, <<49, 69, 53>>, <<45, 48, 46, 53, 69, 43, 49>>, <<49, 97>>,
   <<48, 120>>, <<49, 46, 53, 46, 53>>, <<49, 101, 53, 101, 53>>}

InitNumber == InitWith(Texts(NumAlphabet, MaxNumLen) \cup NumberExamples)

SpecNumber == InitNumber /\ [][Next]_vars

AllDigits(s, from, to) == \A q \in from .. to : s[q] \in 48 .. 57

\* s is, as a whole, a number of the grammar: an optional '-', then 0 or a
\* digit run not led by 0, an optional '.' with digits, an optional e/E with
\* an optional sign and digits
WellFormedNumber(s) ==
  \E i \in {0, 1}, j \in 1 .. Len(s), k \in 1 .. Len(s) :
    /\ i = 1 => s[1] = 45
    /\ i < j /\ AllDigits(s, i + 1, j)
    /\ (j - i = 1 \/ s[i + 1] # 48)
    /\ \/ k = j
       \/ k >= j + 2 /\ s[j + 1] = 46 /\ AllDigits(s, j + 2, k)
    /\ \/ k = Len(s)
       \/ /\ k < Len(s) /\ s[k + 1] \in {69, 101}
          /\ \E m \in {k + 1, k + 2} :
               /\ m = k + 2 => (k + 2 <= Len(s) /\ s[k + 2] \in {43, 45})
               /\ m < Len(s) /\ AllDigits(s, m + 1, Len(s))

\* the length of the longest prefix of text that is a number, 0 if none is
LongestNumber(text) ==
  LET lens == {n \in 1 .. Len(text) : WellFormedNumber(SubSeq(text, 1, n))} IN
  IF lens = {} THEN 0 ELSE CHOOSE n \in lens : \A m \in lens : m <= n

HasFraction(s) == \E q \in 1 .. Len(s) : s[q] = 46
HasExponent(s) == \E q \in 1 .. Len(s) : s[q] \in {69, 101}

\* the first token is the number text[0, n), INT or FLOAT by its shape
NumberToken(text, n) ==
  /\ ~result.threw
  /\ result.value.start = 0 /\ result.value.end = n
  /\ result.value.kind =
       IF HasFraction(SubSeq(text, 1, n)) \/ HasExponent(SubSeq(text, 1, n))
         THEN TokenKind.FLOAT ELSE TokenKind.INT

\* the number text[0, n) is followed by the start of a part it cannot have:
\* a digit after the single 0 of its integer part, a '.' or an e/E with no
\* digit where the part needs one
DanglingPart(text, n) ==
  LET next == charCodeAt(text, n)
      number == SubSeq(text, 1, n) IN
  \/ IsDigit(next)
  \/ next = 46 /\ ~HasFraction(number) /\ ~HasExponent(number)
  \/ next \in {69, 101} /\ ~HasExponent(number)

ZeroLed(text, sign) ==
  /\ sign = 1 => charCodeAt(text, 0) = 45
  /\ charCodeAt(text, sign) = 48
  /\ IsDigit(charCodeAt(text, sign + 1))

\* C6: a number whose integer part is a 0 followed by another digit, with or
\* without a leading '-', makes advance() throw 'Invalid number, unexpected
\* digit after 0: <digit>.' at the digit that follows the 0, and no INT or
\* FLOAT token is returned.
C6_DigitAfterZero ==
  \A sign \in {0, 1} :
    (FirstAdvance /\ ZeroLed(body, sign)) =>
      /\ IsSyntaxError(result, "Invalid number, unexpected digit after 0: %1.")
      /\ result.value.positions = sign + 1
      /\ result.value.message.args = <<<<34, charCodeAt(body, sign + 1), 34>>>>

\* C6 witness: 007 refused at offset 1
C6_Witness ==
  /\ FirstAdvance
  /\ body = <<48, 48, 55>>
  /\ IsSyntaxError(result, "Invalid number, unexpected digit after 0: %1.")
  /\ result.value.positions = 1

(***************************************************************************)
(* Strings that do not end.                                                *)
(***************************************************************************)
StrAlphabet == {7, 10, 13, 34, 92, 97}

\* "abc   "\u00   "\n   "A   """abc   """a\"""   """a""   """a"""
\* "ab\u0041"
StringExamples ==
  {<<34, 97, 98, 99>>, <<34, 92, 117, 48, 48>>, <<34, 92, 110>>,
   <<34, 92, 117, 48, 48, 52, 49>>, <<34, 34, 34, 97, 98, 99>>,
   <<34, 34, 34, 97, 92, 34, 34, 34>>, <<34, 34, 34, 97, 34, 34>>,
   <<34, 34, 34, 97, 34, 34, 34>>,
   <<34, 97, 98, 92, 117, 48, 48, 52, 49, 34>>}

\* texts that open a string or a block string
StringTexts == {<<34>> \o t : t \in Texts(StrAlphabet, MaxStrLen)}

InitString == InitWith(StringTexts \cup StringExamples)

SpecString == InitString /\ [][Next]_vars

OpensBlockString(text) ==
  charCodeAt(text, 0) = 34 /\ charCodeAt(text, 1) = 34 /\ charCodeAt(text, 2) = 34

OpensString(text) == charCodeAt(text, 0) = 34 /\ ~OpensBlockString(text)

\* the offset of the first LF or CR after the opening quote, the length of
\* the text when there is none
LineEnd(text) ==
  CHOOSE p \in 1 .. Len(text) :
    /\ \A q \in 1 .. p - 1 : text[q + 1] \notin {10, 13}
    /\ p < Len(text) => text[p + 1] \in {10, 13}

IsHex(code) ==
  code \in (48 .. 57) \cup (65 .. 70) \cup (97 .. 102)

RECURSIVE OpenStringContent(_, _, _)
\* the characters of text in [p, end) are string characters of the grammar
\* (no quote, no control character but tab, every backslash starting one of
\* \" \/ \\ \b \f \n \r \t or \u and four hex digits), so no quote closes
\* the string before end
OpenStringContent(text, p, end) ==
  IF p >= end THEN TRUE
  ELSE LET c == charCodeAt(text, p)
           e == charCodeAt(text, p + 1) IN
       IF c = 34 \/ (c < 32 /\ c # 9) THEN FALSE
       ELSE IF c # 92 THEN OpenStringContent(text, p + 1, end)
       ELSE IF e \in {34, 47, 92, 98, 102, 110, 114, 116}
         THEN OpenStringContent(text, p + 2, end)
       ELSE IF e = 117 /\ \A d \in 2 .. 5 : IsHex(charCodeAt(text, p + d))
         THEN OpenStringContent(text, p + 6, end)
       ELSE FALSE

TripleQuoteAt(text, p) ==
  charCodeAt(text, p) = 34 /\ charCodeAt(text, p + 1) = 34
                           /\ charCodeAt(text, p + 2) = 34

RECURSIVE OpenBlockContent(_, _)
\* no triple quote closes the block string from p on: every triple quote
\* there is the escaped one, a backslash and three quotes
OpenBlockContent(text, p) ==
  IF p >= Len(text) THEN TRUE
  ELSE IF TripleQuoteAt(text, p) THEN FALSE
  ELSE IF charCodeAt(text, p) = 92 /\ TripleQuoteAt(text, p + 1)
    THEN OpenBlockContent(text, p + 4)
  ELSE OpenBlockContent(text, p + 1)

NoQuoteIn(text, from, to) == \A q \in from .. to - 1 : charCodeAt(text, q) # 34

ReturnsStringToken ==
  ~result.threw /\ result.value.kind \in {TokenKind.STRING, TokenKind.BLOCK_STRING}

\* C8 as stated: a string literal with no quote before the end of its line or
\* of the text, and a block string with no further triple quote before the
\* end of the text, throw 'Syntax Error: Unterminated string.' and give no
\* STRING or BLOCK_STRING token.
C8_Original ==
  FirstAdvance =>
    /\ (OpensString(body) /\ NoQuoteIn(body, 1, LineEnd(body))) =>
         IsSyntaxError(result, "Unterminated string.") /\ ~ReturnsStringToken
    /\ (OpensBlockString(body) /\ \A p \in 3 .. Len(body) : ~TripleQuoteAt(body, p)) =>
         IsSyntaxError(result, "Unterminated string.") /\ ~ReturnsStringToken

\* C8 amended: a string literal that meets the end of the text or a line
\* terminator before its closing quote, and a block string that meets the end
\* of the text before its closing triple quote, give no STRING or BLOCK_STRING
\* token; they throw 'Syntax Error: Unterminated string.' at that point when
\* every character before it is a legal string character and every backslash
\* of a string literal starts a complete escape (otherwise the error of that
\* earlier character or escape is thrown).
C8_Unterminated ==
  FirstAdvance =>
    /\ (OpensString(body) /\ OpenStringContent(body, 1, LineEnd(body))) =>
         /\ IsSyntaxError(result, "Unterminated string.")
         /\ result.value.positions = LineEnd(body)
    /\ (OpensBlockString(body) /\ OpenBlockContent(body, 3)
          /\ \A p \in 3 .. Len(body) - 1 :
               ~(body[p + 1] < 32 /\ body[p + 1] \notin {9, 10, 13})) =>
         /\ IsSyntaxError(result, "Unterminated string.")
         /\ result.value.positions = Len(body)
    /\ (OpensString(body) /\ NoQuoteIn(body, 1, LineEnd(body))) => result.threw
    /\ (OpensBlockString(body) /\ OpenBlockContent(body, 3)) => result.threw

\* C8 witness: "abc, the text ending inside the string
C8_Witness ==
  /\ FirstAdvance
  /\ body = <<34, 97, 98, 99>>
  /\ IsSyntaxError(result, "Unterminated string.")
  /\ result.value.positions = 4

\* C8 witness for block strings is the same error at the end of """a\"""
C8_BlockWitness ==
  /\ FirstAdvance
  /\ body = <<34, 34, 34, 97, 92, 34, 34, 34>>
  /\ IsSyntaxError(result, "Unterminated string.")
  /\ result.value.positions = 8

(***************************************************************************)
(* The dedent of block strings.                                            *)
(***************************************************************************)
RawAlphabet == {9, 10, 13, 32, 97}

\* the lines "", "  Hello,", "    World!", "", "  Yay!", "" joined by LF
HelloRaw ==
  <<10, 32, 32, 72, 101, 108, 108, 111, 44, 10, 32, 32, 32, 32, 87, 111, 114, 108, 100, 33, 10, 10, 32, 32, 89, 97, 121, 33, 10>>

\* "Hello,\n  World!\n\nYay!"
HelloValue ==
  <<72, 101, 108, 108, 111, 44, 10, 32, 32, 87, 111, 114, 108, 100, 33, 10, 10, 89, 97, 121, 33>>

InitBlockString ==
  /\ rawString \in Texts(RawAlphabet, MaxRawLen) \cup {HelloRaw}
  /\ body = <<>>
  /\ options = NoOptions
  /\ lexer = NewLexer
  /\ request = NoRequest
  /\ result = NoResult

NextBlockString == CallBlockStringValue

SpecBlockString == InitBlockString /\ [][NextBlockString]_vars

\* the offsets (from 1) at which a line break of raw ends: every LF, and
\* every CR that no LF follows
BreakEnds(raw) ==
  {i \in 1 .. Len(raw) :
     \/ raw[i] = 10
     \/ raw[i] = 13 /\ (i = Len(raw) \/ raw[i + 1] # 10)}

\* the offset at which the line break ending at i starts
BreakStart(raw, i) ==
  IF raw[i] = 10 /\ i > 1 /\ raw[i - 1] = 13 THEN i - 1 ELSE i

\* the k-th smallest member of a set of numbers
Nth(S, k) == CHOOSE x \in S : Cardinality({y \in S : y < x}) = k - 1

\* the k-th line of raw, k from 1 to the number of line breaks plus one
RefLine(raw, k) ==
  LET ends == BreakEnds(raw)
      from == IF k = 1 THEN 1 ELSE Nth(ends, k - 1) + 1
      to == IF k = Cardinality(ends) + 1
              THEN Len(raw)
              ELSE BreakStart(raw, Nth(ends, k)) - 1 IN
  SubSeq(raw, from, to)

RefLines(raw) == [k \in 1 .. Cardinality(BreakEnds(raw)) + 1 |-> RefLine(raw, k)]

RefBlank(line) == \A q \in 1 .. Len(line) : line[q] \in {32, 9}

\* the count of leading spaces and tabs
RefIndent(line) ==
  CHOOSE n \in 0 .. Len(line) :
    /\ \A q \in 1 .. n : line[q] \in {32, 9}
    /\ n < Len(line) => line[n + 1] \notin {32, 9}

\* the minimum indent over the lines after the first that are not blank
RefCommonIndent(lines) ==
  LET indents == {RefIndent(lines[k]) : k \in {j \in 2 .. Len(lines) : ~RefBlank(lines[j])}} IN
  IF indents = {} THEN 0 ELSE CHOOSE n \in indents : \A m \in indents : n <= m

RECURSIVE RefJoin(_, _, _)
\* lines[from .. to] joined by LF
RefJoin(lines, from, to) ==
  IF from > to THEN <<>>
  ELSE IF from = to THEN lines[from]
  ELSE lines[from] \o <<10>> \o RefJoin(lines, from + 1, to)

\* the reference dedent of the claim
RefDedent(raw) ==
  LET lines == RefLines(raw)
      common == RefCommonIndent(lines)
      dedented == [k \in 1 .. Len(lines) |->
                     IF k = 1 \/ Len(lines[k]) <= common
                       THEN IF k = 1 THEN lines[k] ELSE <<>>
                       ELSE SubSeq(lines[k], common + 1, Len(lines[k]))]
      kept == {k \in 1 .. Len(lines) : ~RefBlank(lines[k])} IN
  IF kept = {} THEN <<>>
  ELSE RefJoin(dedented,
               CHOOSE a \in kept : \A b \in kept : a <= b,
               CHOOSE a \in kept : \A b \in kept : b <= a)

\* C7: blockStringValue(raw) is the reference dedent: the lines of raw split
\* on CRLF, LF or CR, the minimum indent of the non-blank lines after the
\* first removed from every line but the first, leading and trailing blank
\* lines dropped, the rest joined by LF; the lines "", "  Hello,",
\* "    World!", "", "  Yay!", "" give "Hello,\n  World!\n\nYay!".
C7_Dedent ==
  result.op = "blockStringValue" =>
    /\ result.value = RefDedent(rawString)
    /\ rawString = HelloRaw => result.value = HelloValue

\* C7 witness: the Hello example dedented
C7_Witness ==
  /\ result.op = "blockStringValue"
  /\ rawString = HelloRaw
  /\ result.value = HelloValue

(***************************************************************************)
(* Parser: state and utility functions.                                    *)
(***************************************************************************)
\* the kinds of AST nodes (VARIABLE_ is the source's VARIABLE)
NodeKind ==
  [NAME |-> "Name", DOCUMENT |-> "Document",
   OPERATION_DEFINITION |-> "OperationDefinition",
   VARIABLE_DEFINITION |-> "VariableDefinition", VARIABLE_ |-> "Variable",
   SELECTION_SET |-> "SelectionSet", FIELD |-> "Field",
   ARGUMENT |-> "Argument", FRAGMENT_SPREAD |-> "FragmentSpread",
   INLINE_FRAGMENT |-> "InlineFragment",
   FRAGMENT_DEFINITION |-> "FragmentDefinition",
   INT |-> "Int", FLOAT |-> "Float", STRING |-> "String",
   BOOLEAN |-> "Boolean", NULL |-> "Null", ENUM |-> "Enum", LIST |-> "List",
   OBJECT |-> "Object", OBJECT_FIELD |-> "ObjectField",
   DIRECTIVE |-> "Directive", NAMED_TYPE |-> "NamedType",
   LIST_TYPE |-> "ListType", NON_NULL_TYPE |-> "NonNullType",
   SCHEMA_DEFINITION |-> "SchemaDefinition",
   OPERATION_TYPE_DEFINITION |-> "OperationTypeDefinition",
   SCALAR_TYPE_DEFINITION |-> "ScalarTypeDefinition",
   OBJECT_TYPE_DEFINITION |-> "ObjectTypeDefinition",
   FIELD_DEFINITION |-> "FieldDefinition",
   INPUT_VALUE_DEFINITION |-> "InputValueDefinition",
   INTERFACE_TYPE_DEFINITION |-> "InterfaceTypeDefinition",
   UNION_TYPE_DEFINITION |-> "UnionTypeDefinition",
   ENUM_TYPE_DEFINITION |-> "EnumTypeDefinition",
   ENUM_VALUE_DEFINITION |-> "EnumValueDefinition",
   INPUT_OBJECT_TYPE_DEFINITION |-> "InputObjectTypeDefinition",
   SCHEMA_EXTENSION |-> "SchemaExtension",
   SCALAR_TYPE_EXTENSION |-> "ScalarTypeExtension",
   OBJECT_TYPE_EXTENSION |-> "ObjectTypeExtension",
   INTERFACE_TYPE_EXTENSION |-> "InterfaceTypeExtension",
   UNION_TYPE_EXTENSION |-> "UnionTypeExtension",
   ENUM_TYPE_EXTENSION |-> "EnumTypeExtension",
   INPUT_OBJECT_TYPE_EXTENSION |-> "InputObjectTypeExtension",
   DIRECTIVE_DEFINITION |-> "DirectiveDefinition"]

\* the string literals the parser compares token values with
Keyword ==
  [query |-> <<113, 117, 101, 114, 121>>,
   mutation |-> <<109, 117, 116, 97, 116, 105, 111, 110>>,
   subscription |-> <<115, 117, 98, 115, 99, 114, 105, 112, 116, 105, 111, 110>>,
   fragment |-> <<102, 114, 97, 103, 109, 101, 110, 116>>,
   schema |-> <<115, 99, 104, 101, 109, 97>>,
   scalar |-> <<115, 99, 97, 108, 97, 114>>,
   type |-> <<116, 121, 112, 101>>,
   interface |-> <<105, 110, 116, 101, 114, 102, 97, 99, 101>>,
   union |-> <<117, 110, 105, 111, 110>>,
   enum |-> <<101, 110, 117, 109>>,
   input |-> <<105, 110, 112, 117, 116>>,
   directive |-> <<100, 105, 114, 101, 99, 116, 105, 118, 101>>,
   extend |-> <<101, 120, 116, 101, 110, 100>>,
   on |-> <<111, 110>>,
   implements |-> <<105, 109, 112, 108, 101, 109, 101, 110, 116, 115>>,
   true |-> <<116, 114, 117, 101>>,
   false |-> <<102, 97, 108, 115, 101>>,
   null |-> <<110, 117, 108, 108>>]

\* The parser's run: the lexer, whether an error was thrown and which, and
\* the values the calls made so far have returned and that are still to be
\* put into a node, oldest first.
ParserState(lx) ==
  [lexer |-> lx, threw |-> FALSE, error |-> Undefined, vals |-> <<>>]

\* a call of the function fn with the argument arg
S(fn, arg) == [fn |-> fn, arg |-> arg]

\* throw error
Fail(st, error) == [st EXCEPT !.threw = TRUE, !.error = error]

\* the k-th newest value
Top(st, k) == st.vals[Len(st.vals) + 1 - k]

Pop(st, n) ==
  IF st.threw THEN st ELSE [st EXCEPT !.vals = SubSeq(@, 1, Len(@) - n)]

\* a call returned v
Push(st, v) == IF st.threw THEN st ELSE [st EXCEPT !.vals = Append(@, v)]

\* the n newest values are put into v
Replace(st, n, v) == IF st.threw THEN st ELSE Push(Pop(st, n), v)

\* nodes.push(<the newest value>), nodes being the value before it
AppendTop(st) ==
  IF st.threw THEN st ELSE Replace(st, 2, Append(Top(st, 2), Top(st, 1)))

RECURSIVE Call(_, _, _)
RECURSIVE Run(_, _)

\* if (<the newest value>) <thenSteps> else <elseSteps>
WhenTop(s, thenSteps, elseSteps) ==
  IF s.threw THEN s
  ELSE IF Top(s, 1) THEN Run(thenSteps, Pop(s, 1))
  ELSE Run(elseSteps, Pop(s, 1))

\* lexer.advance() as the parser calls it, r being what advance did
advanceInto(st, r) ==
  IF r.read.threw
    THEN Fail([st EXCEPT !.lexer = r.lexer], r.read.error)
    ELSE [st EXCEPT !.lexer = r.lexer]

\* lexer.lookahead() as the parser calls it, r being what lookahead did
lookaheadInto(st, r) ==
  IF r.read.threw
    THEN Fail([st EXCEPT !.lexer = r.lexer], r.read.error)
    ELSE Push([st EXCEPT !.lexer = r.lexer], r.read.token)

\* loc that starts at the last token consumed instead of startToken
loc_FromLastToken(lx, startToken) ==
  IF ~options.noLocation
    THEN [start |-> lx.lastToken.start, end |-> lx.lastToken.end,
          startToken |-> lx.lastToken, endToken |-> lx.lastToken,
          source |-> body]
    ELSE Undefined

\* loc that does not look at options.noLocation
loc_Always(lx, startToken) ==
  [start |-> startToken.start, end |-> lx.lastToken.end,
   startToken |-> startToken, endToken |-> lx.lastToken,
   source |-> body]

\* loc(lexer, startToken)
loc(lx, startToken) ==
  IF ~options.noLocation
    THEN [start |-> startToken.start, end |-> lx.lastToken.end,
          startToken |-> startToken, endToken |-> lx.lastToken,
          source |-> body]
    ELSE Undefined

\* unexpected(lexer, atToken), Undefined standing for no atToken
unexpected(lx, atToken) ==
  syntaxError((IF atToken.kind = "undefined" THEN lx.token ELSE atToken).start,
              "Unexpected %1",
              <<getTokenDesc(IF atToken.kind = "undefined" THEN lx.token ELSE atToken)>>)

\* The object literal a production returns: its kind, the fields named in
\* fields, whose values are the newest values in that order (a value with
\* the name "" goes into no field), and loc(lexer, start).
Node(kind, fields, start, s) ==
  IF s.threw THEN s
  ELSE Replace(s, Len(fields),
         [f \in ({fields[i] : i \in 1 .. Len(fields)} \ {""}) \cup {"kind", "loc"} |->
            IF f = "kind" THEN kind
            ELSE IF f = "loc" THEN loc(s.lexer, start)
            ELSE Top(s, Len(fields) + 1
                        - (CHOOSE i \in 1 .. Len(fields) : fields[i] = f))])

\* The same for an extension, which throws unexpected(lexer) when each of
\* the lists named in added is empty.
ExtensionNode(kind, fields, added, start, s) ==
  IF s.threw THEN s
  ELSE IF \A i \in 1 .. Len(fields) :
            fields[i] \in added => Len(Top(s, Len(fields) + 1 - i)) = 0
    THEN Fail(s, unexpected(s.lexer, Undefined))
  ELSE Node(kind, fields, start, s)

peek(st, kind) == st.lexer.token.kind = kind

skip(st, kind) ==
  IF st.lexer.token.kind = kind
    THEN Push(Call("advance", Undefined, st), TRUE)
    ELSE Push(st, FALSE)

expect(st, kind) ==
  IF st.lexer.token.kind = kind
    THEN Push(Call("advance", Undefined, st), st.lexer.token)
    ELSE Fail(st, syntaxError(st.lexer.token.start, "Expected %1, found %2",
                              <<kind, getTokenDesc(st.lexer.token)>>))

skipKeyword(st, value) ==
  IF st.lexer.token.kind = TokenKind.NAME /\ StrictEquals(st.lexer.token.value, value)
    THEN Push(Call("advance", Undefined, st), TRUE)
    ELSE Push(st, FALSE)

\* expectKeyword after its call of skipKeyword
expectKeywordSkipped(s, value) ==
  IF s.threw THEN s
  ELSE IF Top(s, 1) THEN Pop(s, 1)
  ELSE Fail(s, syntaxError(s.lexer.token.start, "Expected \"%1\", found %2",
                           <<value, getTokenDesc(s.lexer.token)>>))

expectKeyword(st, value) == expectKeywordSkipped(skipKeyword(st, value), value)

RECURSIVE anyLoop(_, _, _)
\* while (!skip(lexer, closeKind)) nodes.push(parseFn(lexer)), the newest
\* value being nodes; skip returns true when the token is of closeKind
anyLoop(s, parseFn, closeKind) ==
  IF s.threw THEN s
  ELSE IF peek(s, closeKind) THEN Pop(skip(s, closeKind), 1)
  ELSE anyLoop(AppendTop(Call(parseFn, Undefined, Pop(skip(s, closeKind), 1))),
               parseFn, closeKind)

any(st, openKind, parseFn, closeKind) ==
  anyLoop(Replace(expect(st, openKind), 1, <<>>), parseFn, closeKind)

RECURSIVE manyLoop(_, _, _)
\* while (!skip(lexer, closeKind)) nodes.push(parseFn(lexer)), the newest
\* value being nodes; skip returns true when the token is of closeKind
manyLoop(s, parseFn, closeKind) ==
  IF s.threw THEN s
  ELSE IF peek(s, closeKind) THEN Pop(skip(s, closeKind), 1)
  ELSE manyLoop(AppendTop(Call(parseFn, Undefined, Pop(skip(s, closeKind), 1))),
                parseFn, closeKind)

many(st, openKind, parseFn, closeKind) ==
  manyLoop(AppendTop(Call(parseFn, Undefined,
                          Replace(expect(st, openKind), 1, <<>>))),
           parseFn, closeKind)

(***************************************************************************)
(* Parser: names, documents and operations.                                *)
(***************************************************************************)
parseName(st) ==
  Node(NodeKind.NAME, <<"value">>, st.lexer.token,
       Run(<<S("expect", TokenKind.NAME), S("toString", Undefined)>>, st))

parseDocument(st) ==
  Node(NodeKind.DOCUMENT, <<"definitions">>, st.lexer.token,
       many(st, TokenKind.SOF, "parseDefinition", TokenKind.EOF))

\* a case label of a switch on token.value matches
IsOneOf(value, keywords) == \E k \in keywords : StrictEquals(value, k)

parseDefinition(st) ==
  IF peek(st, TokenKind.NAME)
    THEN IF IsOneOf(st.lexer.token.value,
                    {Keyword.query, Keyword.mutation, Keyword.subscription,
                     Keyword.fragment})
           THEN Call("parseExecutableDefinition", Undefined, st)
         ELSE IF IsOneOf(st.lexer.token.value,
                         {Keyword.schema, Keyword.scalar, Keyword.type,
                          Keyword.interface, Keyword.union, Keyword.enum,
                          Keyword.input, Keyword.directive})
           THEN Call("parseTypeSystemDefinition", Undefined, st)
         ELSE IF IsOneOf(st.lexer.token.value, {Keyword.extend})
           THEN Call("parseTypeSystemExtension", Undefined, st)
         ELSE Fail(st, unexpected(st.lexer, Undefined))
  ELSE IF peek(st, TokenKind.BRACE_L)
    THEN Call("parseExecutableDefinition", Undefined, st)
  ELSE IF peek(st, TokenKind.STRING) \/ peek(st, TokenKind.BLOCK_STRING)
    THEN Call("parseTypeSystemDefinition", Undefined, st)
  ELSE Fail(st, unexpected(st.lexer, Undefined))

parseExecutableDefinition(st) ==
  IF peek(st, TokenKind.NAME)
    THEN IF IsOneOf(st.lexer.token.value,
                    {Keyword.query, Keyword.mutation, Keyword.subscription})
           THEN Call("parseOperationDefinition", Undefined, st)
         ELSE IF IsOneOf(st.lexer.token.value, {Keyword.fragment})
           THEN Call("parseFragmentDefinition", Undefined, st)
         ELSE Fail(st, unexpected(st.lexer, Undefined))
  ELSE IF peek(st, TokenKind.BRACE_L)
    THEN Call("parseOperationDefinition", Undefined, st)
  ELSE Fail(st, unexpected(st.lexer, Undefined))

\* peek(lexer, kind) ? parseFn(lexer) : otherwise
WhenPeek(st, kind, parseFn, otherwise) ==
  IF peek(st, kind) THEN Call(parseFn, Undefined, st) ELSE Push(st, otherwise)

parseOperationDefinition(st) ==
  IF peek(st, TokenKind.BRACE_L)
    THEN Node(NodeKind.OPERATION_DEFINITION,
              <<"operation", "name", "variableDefinitions", "directives",
                "selectionSet">>,
              st.lexer.token,
              Run(<<S("literal", Keyword.query),
                    S("literal", Undefined),
                    S("literal", <<>>),
                    S("literal", <<>>),
                    S("parseSelectionSet", Undefined)>>, st))
    ELSE Node(NodeKind.OPERATION_DEFINITION,
              <<"operation", "name", "variableDefinitions", "directives",
                "selectionSet">>,
              st.lexer.token,
              Run(<<S("parseOperationType", Undefined),
                    S("optional", [kind |-> TokenKind.NAME, fn |-> "parseName",
                                   otherwise |-> Undefined]),
                    S("parseVariableDefinitions", Undefined),
                    S("parseDirectives", FALSE),
                    S("parseSelectionSet", Undefined)>>, st))

\* parseOperationType after expect gave the token operationToken
OperationTypeOf(s) ==
  IF s.threw THEN s
  ELSE IF StrictEquals(Top(s, 1).value, Keyword.query)
    THEN Replace(s, 1, Keyword.query)
  ELSE IF StrictEquals(Top(s, 1).value, Keyword.mutation)
    THEN Replace(s, 1, Keyword.mutation)
  ELSE IF StrictEquals(Top(s, 1).value, Keyword.subscription)
    THEN Replace(s, 1, Keyword.subscription)
  ELSE Fail(s, unexpected(s.lexer, Top(s, 1)))

parseOperationType(st) == OperationTypeOf(expect(st, TokenKind.NAME))

parseVariableDefinitions(st) ==
  IF peek(st, TokenKind.PAREN_L)
    THEN many(st, TokenKind.PAREN_L, "parseVariableDefinition", TokenKind.PAREN_R)
    ELSE Push(st, <<>>)

parseVariableDefinition(st) ==
  Node(NodeKind.VARIABLE_DEFINITION,
       <<"variable", "", "type", "defaultValue", "directives">>,
       st.lexer.token,
       Run(<<S("parseVariable", Undefined),
             S("expect", TokenKind.COLON),
             S("parseTypeReference", Undefined),
             S("skipThen", [kind |-> TokenKind.EQUALS,
                            then |-> S("parseValueLiteral", TRUE)]),
             S("parseDirectives", TRUE)>>, st))

parseVariable(st) ==
  Node(NodeKind.VARIABLE_, <<"", "name">>, st.lexer.token,
       Run(<<S("expect", TokenKind.DOLLAR), S("parseName", Undefined)>>, st))

parseSelectionSet(st) ==
  Node(NodeKind.SELECTION_SET, <<"selections">>, st.lexer.token,
       many(st, TokenKind.BRACE_L, "parseSelection", TokenKind.BRACE_R))

parseSelection(st) ==
  IF peek(st, TokenKind.SPREAD)
    THEN Call("parseFragment", Undefined, st)
    ELSE Call("parseField", Undefined, st)

\* parseField's alias and name, s being the run after parseName gave
\* nameOrAlias and skip(lexer, TokenKind.COLON) gave the newest value; the
\* values left are alias and name
FieldNames(s) ==
  IF s.threw THEN s
  ELSE IF Top(s, 1) THEN Call("parseName", Undefined, Pop(s, 1))
  ELSE Push(Replace(s, 2, Undefined), Top(s, 2))

parseField(st) ==
  Node(NodeKind.FIELD,
       <<"alias", "name", "arguments", "directives", "selectionSet">>,
       st.lexer.token,
       Run(<<S("parseArguments", FALSE),
             S("parseDirectives", FALSE),
             S("optional", [kind |-> TokenKind.BRACE_L, fn |-> "parseSelectionSet",
                            otherwise |-> Undefined])>>,
           FieldNames(Run(<<S("parseName", Undefined),
                            S("skip", TokenKind.COLON)>>, st))))

parseArguments(st, isConst) ==
  IF peek(st, TokenKind.PAREN_L)
    THEN many(st, TokenKind.PAREN_L,
              IF isConst THEN "parseConstArgument" ELSE "parseArgument",
              TokenKind.PAREN_R)
    ELSE Push(st, <<>>)

parseArgument(st) ==
  Node(NodeKind.ARGUMENT, <<"name", "", "value">>, st.lexer.token,
       Run(<<S("parseName", Undefined), S("expect", TokenKind.COLON),
             S("parseValueLiteral", FALSE)>>, st))

parseConstArgument(st) ==
  Node(NodeKind.ARGUMENT, <<"name", "", "value">>, st.lexer.token,
       Run(<<S("parseName", Undefined), S("expect", TokenKind.COLON),
             S("parseConstValue", Undefined)>>, st))

(***************************************************************************)
(* Parser: fragments, values, directives and type references.              *)
(***************************************************************************)
\* parseFragment from its hasTypeCondition on, s being the run after
\* expect(lexer, TokenKind.SPREAD) and skipKeyword(lexer, 'on')
FragmentAfterOn(start, s) ==
  IF s.threw THEN s
  ELSE IF ~Top(s, 1) /\ peek(s, TokenKind.NAME)
    THEN Node(NodeKind.FRAGMENT_SPREAD, <<"name", "directives">>, start,
              Run(<<S("parseFragmentName", Undefined),
                    S("parseDirectives", FALSE)>>, Pop(s, 2)))
  ELSE Node(NodeKind.INLINE_FRAGMENT,
            <<"typeCondition", "directives", "selectionSet">>, start,
            Run(<<IF Top(s, 1) THEN S("parseNamedType", Undefined)
                               ELSE S("literal", Undefined),
                  S("parseDirectives", FALSE),
                  S("parseSelectionSet", Undefined)>>, Pop(s, 2)))

parseFragment(st) ==
  FragmentAfterOn(st.lexer.token,
    Run(<<S("expect", TokenKind.SPREAD), S("skipKeyword", Keyword.on)>>, st))

parseFragmentDefinition(st) ==
  IF options.experimentalFragmentVariables
    THEN Node(NodeKind.FRAGMENT_DEFINITION,
              <<"name", "variableDefinitions", "typeCondition", "directives",
                "selectionSet">>,
              st.lexer.token,
              Run(<<S("expectKeyword", Keyword.fragment),
                    S("parseFragmentName", Undefined),
                    S("parseVariableDefinitions", Undefined),
                    S("expectKeyword", Keyword.on),
                    S("parseNamedType", Undefined),
                    S("parseDirectives", FALSE),
                    S("parseSelectionSet", Undefined)>>, st))
    ELSE Node(NodeKind.FRAGMENT_DEFINITION,
              <<"name", "typeCondition", "directives", "selectionSet">>,
              st.lexer.token,
              Run(<<S("expectKeyword", Keyword.fragment),
                    S("parseFragmentName", Undefined),
                    S("expectKeyword", Keyword.on),
                    S("parseNamedType", Undefined),
                    S("parseDirectives", FALSE),
                    S("parseSelectionSet", Undefined)>>, st))

parseFragmentName(st) ==
  IF StrictEquals(st.lexer.token.value, Keyword.on)
    THEN Fail(st, unexpected(st.lexer, Undefined))
    ELSE Call("parseName", Undefined, st)

\* lexer.advance() and the node of kind whose value is token.value.toString()
LiteralNode(kind, st) ==
  Node(kind, <<"value">>, st.lexer.token,
       Run(<<S("advance", Undefined),
             S("literal", toString(st.lexer.token.value))>>, st))

parseValueLiteral(st, isConst) ==
  CASE st.lexer.token.kind = TokenKind.BRACKET_L -> Call("parseList", isConst, st)
    [] st.lexer.token.kind = TokenKind.BRACE_L -> Call("parseObject", isConst, st)
    [] st.lexer.token.kind = TokenKind.INT -> LiteralNode(NodeKind.INT, st)
    [] st.lexer.token.kind = TokenKind.FLOAT -> LiteralNode(NodeKind.FLOAT, st)
    [] st.lexer.token.kind \in {TokenKind.STRING, TokenKind.BLOCK_STRING} ->
         Call("parseStringLiteral", Undefined, st)
    [] st.lexer.token.kind = TokenKind.NAME ->
         IF StrictEquals(st.lexer.token.value, Keyword.true)
            \/ StrictEquals(st.lexer.token.value, Keyword.false)
           THEN Node(NodeKind.BOOLEAN, <<"value">>, st.lexer.token,
                     Run(<<S("advance", Undefined),
                           S("literal", StrictEquals(st.lexer.token.value,
                                                     Keyword.true))>>, st))
         ELSE IF StrictEquals(st.lexer.token.value, Keyword.null)
           THEN Node(NodeKind.NULL, <<>>, st.lexer.token,
                     Call("advance", Undefined, st))
         ELSE LiteralNode(NodeKind.ENUM, st)
    [] st.lexer.token.kind = TokenKind.DOLLAR /\ ~isConst ->
         Call("parseVariable", Undefined, st)
    [] OTHER -> Fail(st, unexpected(st.lexer, Undefined))

parseStringLiteral(st) ==
  Node(NodeKind.STRING, <<"value", "block">>, st.lexer.token,
       Run(<<S("advance", Undefined),
             S("literal", toString(st.lexer.token.value)),
             S("literal", st.lexer.token.kind = TokenKind.BLOCK_STRING)>>, st))

parseConstValue(st) == Call("parseValueLiteral", TRUE, st)

parseValueValue(st) == Call("parseValueLiteral", FALSE, st)

parseList(st, isConst) ==
  Node(NodeKind.LIST, <<"values">>, st.lexer.token,
       any(st, TokenKind.BRACKET_L,
           IF isConst THEN "parseConstValue" ELSE "parseValueValue",
           TokenKind.BRACKET_R))

RECURSIVE parseObjectLoop(_, _)
\* while (!skip(lexer, TokenKind.BRACE_R))
\* fields.push(parseObjectField(lexer, isConst)), the newest value being fields
parseObjectLoop(s, isConst) ==
  IF s.threw THEN s
  ELSE IF peek(s, TokenKind.BRACE_R) THEN Pop(skip(s, TokenKind.BRACE_R), 1)
  ELSE parseObjectLoop(
         AppendTop(Call("parseObjectField", isConst,
                        Pop(skip(s, TokenKind.BRACE_R), 1))),
         isConst)

parseObject(st, isConst) ==
  Node(NodeKind.OBJECT, <<"fields">>, st.lexer.token,
       parseObjectLoop(Replace(expect(st, TokenKind.BRACE_L), 1, <<>>), isConst))

parseObjectField(st, isConst) ==
  Node(NodeKind.OBJECT_FIELD, <<"name", "", "value">>, st.lexer.token,
       Run(<<S("parseName", Undefined), S("expect", TokenKind.COLON),
             S("parseValueLiteral", isConst)>>, st))

RECURSIVE parseDirectivesLoop(_, _)
\* while (peek(lexer, TokenKind.AT))
\* directives.push(parseDirective(lexer, isConst)), the newest value being
\* directives
parseDirectivesLoop(s, isConst) ==
  IF s.threw THEN s
  ELSE IF peek(s, TokenKind.AT)
    THEN parseDirectivesLoop(AppendTop(Call("parseDirective", isConst, s)), isConst)
  ELSE s

parseDirectives(st, isConst) == parseDirectivesLoop(Push(st, <<>>), isConst)

parseDirective(st, isConst) ==
  Node(NodeKind.DIRECTIVE, <<"", "name", "arguments">>, st.lexer.token,
       Run(<<S("expect", TokenKind.AT), S("parseName", Undefined),
             S("parseArguments", isConst)>>, st))

\* the list type of parseTypeReference, after its skip of the bracket
parseListType(st, start) ==
  Node(NodeKind.LIST_TYPE, <<"type", "">>, start,
       Run(<<S("parseTypeReference", Undefined),
             S("expect", TokenKind.BRACKET_R)>>, st))

\* the non-null type of parseTypeReference, the newest value being type
NonNullType(st, start) == Node(NodeKind.NON_NULL_TYPE, <<"type">>, start, st)

parseTypeReference(st) ==
  WhenTop(Call("skip", TokenKind.BANG,
               WhenTop(skip(st, TokenKind.BRACKET_L),
                       <<S("parseListType", st.lexer.token)>>,
                       <<S("parseNamedType", Undefined)>>)),
          <<S("NonNullType", st.lexer.token)>>,
          <<>>)

parseNamedType(st) ==
  Node(NodeKind.NAMED_TYPE, <<"name">>, st.lexer.token,
       Call("parseName", Undefined, st))

(***************************************************************************)
(* Parser: type system definitions and extensions.                         *)
(***************************************************************************)
\* The switch on keywordToken.value, keywordToken being the newest value and
\* cases giving for each case label the function called.
SwitchOnKeyword(s, cases) ==
  IF s.threw THEN s
  ELSE IF /\ Top(s, 1).kind = TokenKind.NAME
          /\ \E k \in DOMAIN cases : StrictEquals(Top(s, 1).value, Keyword[k])
    THEN Call(cases[CHOOSE k \in DOMAIN cases :
                      StrictEquals(Top(s, 1).value, Keyword[k])],
              Undefined, Pop(s, 1))
  ELSE Fail(s, unexpected(s.lexer, Top(s, 1)))

peekDescription(st) ==
  peek(st, TokenKind.STRING) \/ peek(st, TokenKind.BLOCK_STRING)

parseTypeSystemDefinition(st) ==
  SwitchOnKeyword(IF peekDescription(st)
                    THEN Call("lookahead", Undefined, st)
                    ELSE Push(st, st.lexer.token),
                  [schema |-> "parseSchemaDefinition",
                   scalar |-> "parseScalarTypeDefinition",
                   type |-> "parseObjectTypeDefinition",
                   interface |-> "parseInterfaceTypeDefinition",
                   union |-> "parseUnionTypeDefinition",
                   enum |-> "parseEnumTypeDefinition",
                   input |-> "parseInputObjectTypeDefinition",
                   directive |-> "parseDirectiveDefinition"])

parseDescription(st) ==
  IF peekDescription(st)
    THEN Call("parseStringLiteral", Undefined, st)
    ELSE Push(st, Undefined)

parseTypeSystemExtension(st) ==
  SwitchOnKeyword(Call("lookahead", Undefined, st),
                  [schema |-> "parseSchemaExtension",
                   scalar |-> "parseScalarTypeExtension",
                   type |-> "parseObjectTypeExtension",
                   interface |-> "parseInterfaceTypeExtension",
                   union |-> "parseUnionTypeExtension",
                   enum |-> "parseEnumTypeExtension",
                   input |-> "parseInputObjectTypeExtension"])

parseSchemaDefinition(st) ==
  Node(NodeKind.SCHEMA_DEFINITION,
       <<"directives", "operationTypes">>,
       st.lexer.token,
       Run(<<S("expectKeyword", Keyword.schema),
             S("parseDirectives", TRUE),
             S("many", [open |-> TokenKind.BRACE_L,
                        fn |-> "parseOperationTypeDefinition",
                        close |-> TokenKind.BRACE_R])>>, st))

parseOperationTypeDefinition(st) ==
  Node(NodeKind.OPERATION_TYPE_DEFINITION,
       <<"operation", "", "type">>,
       st.lexer.token,
       Run(<<S("parseOperationType", Undefined),
             S("expect", TokenKind.COLON),
             S("parseNamedType", Undefined)>>, st))

parseScalarTypeDefinition(st) ==
  Node(NodeKind.SCALAR_TYPE_DEFINITION,
       <<"description", "name", "directives">>,
       st.lexer.token,
       Run(<<S("parseDescription", Undefined),
             S("expectKeyword", Keyword.scalar),
             S("parseName", Undefined),
             S("parseDirectives", TRUE)>>, st))

parseObjectTypeDefinition(st) ==
  Node(NodeKind.OBJECT_TYPE_DEFINITION,
       <<"description", "name", "interfaces", "directives", "fields">>,
       st.lexer.token,
       Run(<<S("parseDescription", Undefined),
             S("expectKeyword", Keyword.type),
             S("parseName", Undefined),
             S("parseImplementsInterfaces", Undefined),
             S("parseDirectives", TRUE),
             S("parseFieldsDefinition", Undefined)>>, st))

RECURSIVE parseImplementsInterfacesLoop(_)
\* do { types.push(parseNamedType(lexer)) } while (skip(lexer, TokenKind.AMP)
\* || (lexer.options.allowLegacySDLImplementsInterfaces &&
\* peek(lexer, TokenKind.NAME))), the newest value being types
parseImplementsInterfacesLoop(s) ==
  IF s.threw THEN s
  ELSE WhenTop(Call("skip", TokenKind.AMP,
                    AppendTop(Call("parseNamedType", Undefined, s))),
               <<S("parseImplementsInterfacesLoop", Undefined)>>,
               <<S("parseImplementsInterfacesLegacy", Undefined)>>)

\* the second operand of the while condition of parseImplementsInterfaces
parseImplementsInterfacesLegacy(s) ==
  IF options.allowLegacySDLImplementsInterfaces /\ peek(s, TokenKind.NAME)
    THEN Call("parseImplementsInterfacesLoop", Undefined, s)
    ELSE s

parseImplementsInterfaces(st) ==
  WhenTop(skipKeyword(Push(st, <<>>), Keyword.implements),
          <<S("skip", TokenKind.AMP), S("drop", Undefined),
            S("parseImplementsInterfacesLoop", Undefined)>>,
          <<>>)

\* the legacy branch of parseFieldsDefinition, s being the run after
\* lexer.lookahead()
FieldsDefinitionLookedAhead(s) ==
  IF s.threw THEN s
  ELSE IF Top(s, 1).kind = TokenKind.BRACE_R
    THEN Push(Run(<<S("advance", Undefined), S("advance", Undefined)>>, Pop(s, 1)),
              <<>>)
  ELSE many(Pop(s, 1), TokenKind.BRACE_L, "parseFieldDefinition", TokenKind.BRACE_R)

parseFieldsDefinition(st) ==
  IF options.allowLegacySDLEmptyFields /\ peek(st, TokenKind.BRACE_L)
    THEN FieldsDefinitionLookedAhead(Call("lookahead", Undefined, st))
  ELSE IF peek(st, TokenKind.BRACE_L)
    THEN many(st, TokenKind.BRACE_L, "parseFieldDefinition", TokenKind.BRACE_R)
  ELSE Push(st, <<>>)

parseFieldDefinition(st) ==
  Node(NodeKind.FIELD_DEFINITION,
       <<"description", "name", "arguments", "", "type", "directives">>,
       st.lexer.token,
       Run(<<S("parseDescription", Undefined),
             S("parseName", Undefined),
             S("parseArgumentDefs", Undefined),
             S("expect", TokenKind.COLON),
             S("parseTypeReference", Undefined),
             S("parseDirectives", TRUE)>>, st))

parseArgumentDefs(st) ==
  IF ~peek(st, TokenKind.PAREN_L)
    THEN Push(st, <<>>)
    ELSE many(st, TokenKind.PAREN_L, "parseInputValueDef", TokenKind.PAREN_R)

parseInputValueDef(st) ==
  Node(NodeKind.INPUT_VALUE_DEFINITION,
       <<"description", "name", "", "type", "defaultValue", "directives">>,
       st.lexer.token,
       Run(<<S("parseDescription", Undefined),
             S("parseName", Undefined),
             S("expect", TokenKind.COLON),
             S("parseTypeReference", Undefined),
             S("skipThen", [kind |-> TokenKind.EQUALS,
                            then |-> S("parseConstValue", Undefined)]),
             S("parseDirectives", TRUE)>>, st))

parseInterfaceTypeDefinition(st) ==
  Node(NodeKind.INTERFACE_TYPE_DEFINITION,
       <<"description", "name", "directives", "fields">>,
       st.lexer.token,
       Run(<<S("parseDescription", Undefined),
             S("expectKeyword", Keyword.interface),
             S("parseName", Undefined),
             S("parseDirectives", TRUE),
             S("parseFieldsDefinition", Undefined)>>, st))

parseUnionTypeDefinition(st) ==
  Node(NodeKind.UNION_TYPE_DEFINITION,
       <<"description", "name", "directives", "types">>,
       st.lexer.token,
       Run(<<S("parseDescription", Undefined),
             S("expectKeyword", Keyword.union),
             S("parseName", Undefined),
             S("parseDirectives", TRUE),
             S("parseUnionMemberTypes", Undefined)>>, st))

RECURSIVE parseUnionMemberTypesLoop(_)
\* do { types.push(parseNamedType(lexer)) } while (skip(lexer,
\* TokenKind.PIPE)), the newest value being types
parseUnionMemberTypesLoop(s) ==
  IF s.threw THEN s
  ELSE WhenTop(Call("skip", TokenKind.PIPE,
                    AppendTop(Call("parseNamedType", Undefined, s))),
               <<S("parseUnionMemberTypesLoop", Undefined)>>,
               <<>>)

parseUnionMemberTypes(st) ==
  WhenTop(skip(Push(st, <<>>), TokenKind.EQUALS),
          <<S("skip", TokenKind.PIPE), S("drop", Undefined),
            S("parseUnionMemberTypesLoop", Undefined)>>,
          <<>>)

parseEnumTypeDefinition(st) ==
  Node(NodeKind.ENUM_TYPE_DEFINITION,
       <<"description", "name", "directives", "values">>,
       st.lexer.token,
       Run(<<S("parseDescription", Undefined),
             S("expectKeyword", Keyword.enum),
             S("parseName", Undefined),
             S("parseDirectives", TRUE),
             S("parseEnumValuesDefinition", Undefined)>>, st))

parseEnumValuesDefinition(st) ==
  IF peek(st, TokenKind.BRACE_L)
    THEN many(st, TokenKind.BRACE_L, "parseEnumValueDefinition", TokenKind.BRACE_R)
    ELSE Push(st, <<>>)

parseEnumValueDefinition(st) ==
  Node(NodeKind.ENUM_VALUE_DEFINITION,
       <<"description", "name", "directives">>,
       st.lexer.token,
       Run(<<S("parseDescription", Undefined),
             S("parseName", Undefined),
             S("parseDirectives", TRUE)>>, st))

parseInputObjectTypeDefinition(st) ==
  Node(NodeKind.INPUT_OBJECT_TYPE_DEFINITION,
       <<"description", "name", "directives", "fields">>,
       st.lexer.token,
       Run(<<S("parseDescription", Undefined),
             S("expectKeyword", Keyword.input),
             S("parseName", Undefined),
             S("parseDirectives", TRUE),
             S("parseInputFieldsDefinition", Undefined)>>, st))

parseInputFieldsDefinition(st) ==
  IF peek(st, TokenKind.BRACE_L)
    THEN many(st, TokenKind.BRACE_L, "parseInputValueDef", TokenKind.BRACE_R)
    ELSE Push(st, <<>>)

\* peek(lexer, TokenKind.BRACE_L) ? many(lexer, TokenKind.BRACE_L,
\* parseOperationTypeDefinition, TokenKind.BRACE_R) : [] of
\* parseSchemaExtension
OptionalOperationTypes(st) ==
  IF peek(st, TokenKind.BRACE_L)
    THEN many(st, TokenKind.BRACE_L, "parseOperationTypeDefinition", TokenKind.BRACE_R)
    ELSE Push(st, <<>>)

parseSchemaExtension(st) ==
  ExtensionNode(NodeKind.SCHEMA_EXTENSION,
       <<"directives", "operationTypes">>,
       {"directives", "operationTypes"},
       st.lexer.token,
       Run(<<S("expectKeyword", Keyword.extend),
             S("expectKeyword", Keyword.schema),
             S("parseDirectives", TRUE),
             S("OptionalOperationTypes", Undefined)>>, st))

parseScalarTypeExtension(st) ==
  ExtensionNode(NodeKind.SCALAR_TYPE_EXTENSION,
       <<"name", "directives">>,
       {"directives"},
       st.lexer.token,
       Run(<<S("expectKeyword", Keyword.extend),
             S("expectKeyword", Keyword.scalar),
             S("parseName", Undefined),
             S("parseDirectives", TRUE)>>, st))

parseObjectTypeExtension(st) ==
  ExtensionNode(NodeKind.OBJECT_TYPE_EXTENSION,
       <<"name", "interfaces", "directives", "fields">>,
       {"interfaces", "directives", "fields"},
       st.lexer.token,
       Run(<<S("expectKeyword", Keyword.extend),
             S("expectKeyword", Keyword.type),
             S("parseName", Undefined),
             S("parseImplementsInterfaces", Undefined),
             S("parseDirectives", TRUE),
             S("parseFieldsDefinition", Undefined)>>, st))

parseInterfaceTypeExtension(st) ==
  ExtensionNode(NodeKind.INTERFACE_TYPE_EXTENSION,
       <<"name", "directives", "fields">>,
       {"directives", "fields"},
       st.lexer.token,
       Run(<<S("expectKeyword", Keyword.extend),
             S("expectKeyword", Keyword.interface),
             S("parseName", Undefined),
             S("parseDirectives", TRUE),
             S("parseFieldsDefinition", Undefined)>>, st))

parseUnionTypeExtension(st) ==
  ExtensionNode(NodeKind.UNION_TYPE_EXTENSION,
       <<"name", "directives", "types">>,
       {"directives", "types"},
       st.lexer.token,
       Run(<<S("expectKeyword", Keyword.extend),
             S("expectKeyword", Keyword.union),
             S("parseName", Undefined),
             S("parseDirectives", TRUE),
             S("parseUnionMemberTypes", Undefined)>>, st))

parseEnumTypeExtension(st) ==
  ExtensionNode(NodeKind.ENUM_TYPE_EXTENSION,
       <<"name", "directives", "values">>,
       {"directives", "values"},
       st.lexer.token,
       Run(<<S("expectKeyword", Keyword.extend),
             S("expectKeyword", Keyword.enum),
             S("parseName", Undefined),
             S("parseDirectives", TRUE),
             S("parseEnumValuesDefinition", Undefined)>>, st))

parseInputObjectTypeExtension(st) ==
  ExtensionNode(NodeKind.INPUT_OBJECT_TYPE_EXTENSION,
       <<"name", "directives", "fields">>,
       {"directives", "fields"},
       st.lexer.token,
       Run(<<S("expectKeyword", Keyword.extend),
             S("expectKeyword", Keyword.input),
             S("parseName", Undefined),
             S("parseDirectives", TRUE),
             S("parseInputFieldsDefinition", Undefined)>>, st))

parseDirectiveDefinition(st) ==
  Node(NodeKind.DIRECTIVE_DEFINITION,
       <<"description", "", "name", "arguments", "locations">>,
       st.lexer.token,
       Run(<<S("parseDescription", Undefined),
             S("expectKeyword", Keyword.directive),
             S("expect", TokenKind.AT),
             S("parseName", Undefined),
             S("parseArgumentDefs", Undefined),
             S("expectKeyword", Keyword.on),
             S("parseDirectiveLocations", Undefined)>>, st))

\* the names of the directive locations
DirectiveLocation ==
  {<<81, 85, 69, 82, 89>>,
   <<77, 85, 84, 65, 84, 73, 79, 78>>,
   <<83, 85, 66, 83, 67, 82, 73, 80, 84, 73, 79, 78>>,
   <<70, 73, 69, 76, 68>>,
   <<70, 82, 65, 71, 77, 69, 78, 84, 95, 68, 69, 70, 73, 78, 73, 84, 73, 79, 78>>,
   <<70, 82, 65, 71, 77, 69, 78, 84, 95, 83, 80, 82, 69, 65, 68>>,
   <<73, 78, 76, 73, 78, 69, 95, 70, 82, 65, 71, 77, 69, 78, 84>>,
   <<86, 65, 82, 73, 65, 66, 76, 69, 95, 68, 69, 70, 73, 78, 73, 84, 73, 79, 78>>,
   <<83, 67, 72, 69, 77, 65>>,
   <<83, 67, 65, 76, 65, 82>>,
   <<79, 66, 74, 69, 67, 84>>,
   <<70, 73, 69, 76, 68, 95, 68, 69, 70, 73, 78, 73, 84, 73, 79, 78>>,
   <<65, 82, 71, 85, 77, 69, 78, 84, 95, 68, 69, 70, 73, 78, 73, 84, 73, 79, 78>>,
   <<73, 78, 84, 69, 82, 70, 65, 67, 69>>,
   <<85, 78, 73, 79, 78>>,
   <<69, 78, 85, 77>>,
   <<69, 78, 85, 77, 95, 86, 65, 76, 85, 69>>,
   <<73, 78, 80, 85, 84, 95, 79, 66, 74, 69, 67, 84>>,
   <<73, 78, 80, 85, 84, 95, 70, 73, 69, 76, 68, 95, 68, 69, 70, 73, 78, 73, 84, 73, 79, 78>>}

\* parseDirectiveLocation after parseName gave the newest value
DirectiveLocationNamed(start, s) ==
  IF s.threw THEN s
  ELSE IF Top(s, 1).value \in DirectiveLocation THEN s
  ELSE Fail(s, unexpected(s.lexer, start))

parseDirectiveLocation(st) ==
  DirectiveLocationNamed(st.lexer.token, Call("parseName", Undefined, st))

RECURSIVE parseDirectiveLocationsLoop(_)
\* do { locations.push(parseDirectiveLocation(lexer)) } while (skip(lexer,
\* TokenKind.PIPE)), the newest value being locations
parseDirectiveLocationsLoop(s) ==
  IF s.threw THEN s
  ELSE WhenTop(Call("skip", TokenKind.PIPE,
                    AppendTop(Call("parseDirectiveLocation", Undefined, s))),
               <<S("parseDirectiveLocationsLoop", Undefined)>>,
               <<>>)

parseDirectiveLocations(st) ==
  parseDirectiveLocationsLoop(Replace(skip(st, TokenKind.PIPE), 1, <<>>))

(***************************************************************************)
(* Parser: the calls of one function by another, and the entry points.     *)
(***************************************************************************)
\* skip(lexer, kind) ? <then> : undefined
SkipThen(st, kind, then) ==
  WhenTop(skip(st, kind), <<then>>, <<S("literal", Undefined)>>)

\* the call fn(lexer) or fn(lexer, arg) made in the run st; nothing is called
\* once an error was thrown
Call(fn, arg, st) ==
  IF st.threw THEN st
  ELSE CASE fn = "advance" -> advanceInto(st, advance(body, st.lexer))
         [] fn = "lookahead" -> lookaheadInto(st, lookahead(body, st.lexer))
         [] fn = "literal" -> Push(st, arg)
         [] fn = "drop" -> Pop(st, 1)
         [] fn = "toString" -> Replace(st, 1, toString(Top(st, 1).value))
         [] fn = "optional" -> WhenPeek(st, arg.kind, arg.fn, arg.otherwise)
         [] fn = "skipThen" -> SkipThen(st, arg.kind, arg.then)
         [] fn = "many" -> many(st, arg.open, arg.fn, arg.close)
         [] fn = "skip" -> skip(st, arg)
         [] fn = "expect" -> expect(st, arg)
         [] fn = "skipKeyword" -> skipKeyword(st, arg)
         [] fn = "expectKeyword" -> expectKeyword(st, arg)
         [] fn = "parseName" -> parseName(st)
         [] fn = "parseDocument" -> parseDocument(st)
         [] fn = "parseDefinition" -> parseDefinition(st)
         [] fn = "parseExecutableDefinition" -> parseExecutableDefinition(st)
         [] fn = "parseOperationDefinition" -> parseOperationDefinition(st)
         [] fn = "parseOperationType" -> parseOperationType(st)
         [] fn = "parseVariableDefinitions" -> parseVariableDefinitions(st)
         [] fn = "parseVariableDefinition" -> parseVariableDefinition(st)
         [] fn = "parseVariable" -> parseVariable(st)
         [] fn = "parseSelectionSet" -> parseSelectionSet(st)
         [] fn = "parseSelection" -> parseSelection(st)
         [] fn = "parseField" -> parseField(st)
         [] fn = "parseArguments" -> parseArguments(st, arg)
         [] fn = "parseArgument" -> parseArgument(st)
         [] fn = "parseConstArgument" -> parseConstArgument(st)
         [] fn = "parseFragment" -> parseFragment(st)
         [] fn = "parseFragmentDefinition" -> parseFragmentDefinition(st)
         [] fn = "parseFragmentName" -> parseFragmentName(st)
         [] fn = "parseValueLiteral" -> parseValueLiteral(st, arg)
         [] fn = "parseStringLiteral" -> parseStringLiteral(st)
         [] fn = "parseConstValue" -> parseConstValue(st)
         [] fn = "parseValueValue" -> parseValueValue(st)
         [] fn = "parseList" -> parseList(st, arg)
         [] fn = "parseObject" -> parseObject(st, arg)
         [] fn = "parseObjectField" -> parseObjectField(st, arg)
         [] fn = "parseDirectives" -> parseDirectives(st, arg)
         [] fn = "parseDirective" -> parseDirective(st, arg)
         [] fn = "parseListType" -> parseListType(st, arg)
         [] fn = "NonNullType" -> NonNullType(st, arg)
         [] fn = "parseTypeReference" -> parseTypeReference(st)
         [] fn = "parseNamedType" -> parseNamedType(st)
         [] fn = "parseTypeSystemDefinition" -> parseTypeSystemDefinition(st)
         [] fn = "parseDescription" -> parseDescription(st)
         [] fn = "parseTypeSystemExtension" -> parseTypeSystemExtension(st)
         [] fn = "parseSchemaDefinition" -> parseSchemaDefinition(st)
         [] fn = "parseOperationTypeDefinition" -> parseOperationTypeDefinition(st)
         [] fn = "parseScalarTypeDefinition" -> parseScalarTypeDefinition(st)
         [] fn = "parseObjectTypeDefinition" -> parseObjectTypeDefinition(st)
         [] fn = "parseImplementsInterfacesLoop" -> parseImplementsInterfacesLoop(st)
         [] fn = "parseImplementsInterfacesLegacy" -> parseImplementsInterfacesLegacy(st)
         [] fn = "parseImplementsInterfaces" -> parseImplementsInterfaces(st)
         [] fn = "parseFieldsDefinition" -> parseFieldsDefinition(st)
         [] fn = "parseFieldDefinition" -> parseFieldDefinition(st)
         [] fn = "parseArgumentDefs" -> parseArgumentDefs(st)
         [] fn = "parseInputValueDef" -> parseInputValueDef(st)
         [] fn = "parseInterfaceTypeDefinition" -> parseInterfaceTypeDefinition(st)
         [] fn = "parseUnionTypeDefinition" -> parseUnionTypeDefinition(st)
         [] fn = "parseUnionMemberTypesLoop" -> parseUnionMemberTypesLoop(st)
         [] fn = "parseUnionMemberTypes" -> parseUnionMemberTypes(st)
         [] fn = "parseEnumTypeDefinition" -> parseEnumTypeDefinition(st)
         [] fn = "parseEnumValuesDefinition" -> parseEnumValuesDefinition(st)
         [] fn = "parseEnumValueDefinition" -> parseEnumValueDefinition(st)
         [] fn = "parseInputObjectTypeDefinition" -> parseInputObjectTypeDefinition(st)
         [] fn = "parseInputFieldsDefinition" -> parseInputFieldsDefinition(st)
         [] fn = "OptionalOperationTypes" -> OptionalOperationTypes(st)
         [] fn = "parseSchemaExtension" -> parseSchemaExtension(st)
         [] fn = "parseScalarTypeExtension" -> parseScalarTypeExtension(st)
         [] fn = "parseObjectTypeExtension" -> parseObjectTypeExtension(st)
         [] fn = "parseInterfaceTypeExtension" -> parseInterfaceTypeExtension(st)
         [] fn = "parseUnionTypeExtension" -> parseUnionTypeExtension(st)
         [] fn = "parseEnumTypeExtension" -> parseEnumTypeExtension(st)
         [] fn = "parseInputObjectTypeExtension" -> parseInputObjectTypeExtension(st)
         [] fn = "parseDirectiveDefinition" -> parseDirectiveDefinition(st)
         [] fn = "parseDirectiveLocation" -> parseDirectiveLocation(st)
         [] fn = "parseDirectiveLocationsLoop" -> parseDirectiveLocationsLoop(st)
         [] fn = "parseDirectiveLocations" -> parseDirectiveLocations(st)

\* the calls of steps made one after the other
Run(steps, st) ==
  IF Len(steps) = 0 \/ st.threw
    THEN st
    ELSE Run(Tail(steps), Call(Head(steps).fn, Head(steps).arg, st))

\* createLexer(sourceObj, options || {})
createLexer == ParserState(NewLexer)

parse == Call("parseDocument", Undefined, createLexer)

\* the values: the SOF token, the value or type, the EOF token
ReturnSecond(s) == IF s.threw THEN s ELSE Replace(s, 3, Top(s, 2))

\* parseValue without its expect(lexer, TokenKind.EOF)
parseValue_NoEOF ==
  ReturnSecond(Run(<<S("expect", TokenKind.SOF),
                     S("parseValueLiteral", FALSE),
                     S("literal", Undefined)>>, createLexer))

parseValue ==
  ReturnSecond(Run(<<S("expect", TokenKind.SOF),
                     S("parseValueLiteral", FALSE),
                     S("expect", TokenKind.EOF)>>, createLexer))

parseType ==
  ReturnSecond(Run(<<S("expect", TokenKind.SOF),
                     S("parseTypeReference", Undefined),
                     S("expect", TokenKind.EOF)>>, createLexer))

\* what a call of an entry point left behind: the node it returned or the
\* error it threw
ParseResult(op, s) ==
  [op |-> op, threw |-> s.threw,
   value |-> IF s.threw THEN s.error ELSE Top(s, 1)]

\* parse(body, options)
Parse ==
  /\ \E s \in {parse} :
       /\ lexer' = s.lexer
       /\ result' = ParseResult("parse", s)
  /\ UNCHANGED <<body, options, rawString, request>>

\* parseValue(body, options)
ParseValue ==
  /\ \E s \in {parseValue} :
       /\ lexer' = s.lexer
       /\ result' = ParseResult("parseValue", s)
  /\ UNCHANGED <<body, options, rawString, request>>

\* parseType(body, options)
ParseType ==
  /\ \E s \in {parseType} :
       /\ lexer' = s.lexer
       /\ result' = ParseResult("parseType", s)
  /\ UNCHANGED <<body, options, rawString, request>>

NextParse == Parse \/ ParseValue \/ ParseType

(***************************************************************************)
(* The texts and options the entry points are called with.                 *)
(***************************************************************************)
MaxDefs == 2
MaxTokens == 2

\* One definition of each form of the grammar, in this order:
\*   { a }
\*   query { a }
\*   mutation { a }
\*   subscription { a }
\*   fragment F on T { a }
\*   schema { query: Q }
\*   scalar S
\*   type T { a: I }
\*   interface I { a: I }
\*   union U = A
\*   enum E { A }
\*   input I { a: I }
\*   directive @d on FIELD
\*   extend type T @d
DefinitionTexts ==
  <<<<123, 32, 97, 32, 125>>,
    <<113, 117, 101, 114, 121, 32, 123, 32, 97, 32, 125>>,
    <<109, 117, 116, 97, 116, 105, 111, 110, 32, 123, 32, 97, 32, 125>>,
    <<115, 117, 98, 115, 99, 114, 105, 112, 116, 105, 111, 110, 32, 123, 32, 97, 32, 125>>,
    <<102, 114, 97, 103, 109, 101, 110, 116, 32, 70, 32, 111, 110, 32, 84, 32, 123, 32, 97, 32, 125>>,
    <<115, 99, 104, 101, 109, 97, 32, 123, 32, 113, 117, 101, 114, 121, 58, 32, 81, 32, 125>>,
    <<115, 99, 97, 108, 97, 114, 32, 83>>,
    <<116, 121, 112, 101, 32, 84, 32, 123, 32, 97, 58, 32, 73, 32, 125>>,
    <<105, 110, 116, 101, 114, 102, 97, 99, 101, 32, 73, 32, 123, 32, 97, 58, 32, 73, 32, 125>>,
    <<117, 110, 105, 111, 110, 32, 85, 32, 61, 32, 65>>,
    <<101, 110, 117, 109, 32, 69, 32, 123, 32, 65, 32, 125>>,
    <<105, 110, 112, 117, 116, 32, 73, 32, 123, 32, 97, 58, 32, 73, 32, 125>>,
    <<100, 105, 114, 101, 99, 116, 105, 118, 101, 32, 64, 100, 32, 111, 110, 32, 70, 73, 69, 76, 68>>,
    <<101, 120, 116, 101, 110, 100, 32, 116, 121, 112, 101, 32, 84, 32, 64, 100>>>>

\* The lexemes of the punctuators, a name, an integer and a string:
\*   {  }  a  $  [  ]  :  1  "s"  ...  @  !  (  )
Lexemes ==
  {<<123>>,
   <<125>>,
   <<97>>,
   <<36>>,
   <<91>>,
   <<93>>,
   <<58>>,
   <<49>>,
   <<34, 115, 34>>,
   <<46, 46, 46>>,
   <<64>>,
   <<33>>,
   <<40>>,
   <<41>>}

\* Texts of the examples:
\*   { field }
\*   [1, 2, "three"]
\*   extend type Foo
\*   extend type Foo @d
\*   type X implements Foo Bar
\*   { a(b: $c, d: [1, {e: 2.5}]) @f { ...G ... on H { i } ... @j { k } l: m } }
\*   {a: [1 "s" b $c], d: """x"""}
\*   [a!]!
\*   fragment F($a: I) on T { a }
\*   type T {}
\*   interface I {}
\*   extend type T @d {}
\*   query { a } }
\*   query ($a: I = $b) { a }
\*   { ... on H { i } }
FieldText == <<123, 32, 102, 105, 101, 108, 100, 32, 125>>

ListText == <<91, 49, 44, 32, 50, 44, 32, 34, 116, 104, 114, 101, 101, 34, 93>>

ExtendNothingText == <<101, 120, 116, 101, 110, 100, 32, 116, 121, 112, 101, 32, 70, 111, 111>>

ExtendDirectiveText == <<101, 120, 116, 101, 110, 100, 32, 116, 121, 112, 101, 32, 70, 111, 111, 32, 64, 100>>

ImplementsText == <<116, 121, 112, 101, 32, 88, 32, 105, 109, 112, 108, 101, 109, 101, 110, 116, 115, 32, 70, 111, 111, 32, 66, 97, 114>>

SelectionText ==
  <<123, 32, 97, 40, 98, 58, 32, 36, 99, 44, 32, 100, 58, 32, 91, 49, 44, 32, 123, 101, 58, 32, 50, 46, 53, 125, 93, 41, 32, 64, 102, 32, 123, 32, 46, 46, 46, 71, 32, 46, 46, 46, 32, 111, 110, 32, 72, 32, 123, 32, 105, 32, 125, 32, 46, 46, 46, 32, 64, 106, 32, 123, 32, 107, 32, 125, 32, 108, 58, 32, 109, 32, 125, 32, 125>>

ValueText ==
  <<123, 97, 58, 32, 91, 49, 32, 34, 115, 34, 32, 98, 32, 36, 99, 93, 44, 32, 100, 58, 32, 34, 34, 34, 120, 34, 34, 34, 125>>

TypeText ==
  <<91, 97, 33, 93, 33>>

FragmentVariablesText ==
  <<102, 114, 97, 103, 109, 101, 110, 116, 32, 70, 40, 36, 97, 58, 32, 73, 41, 32, 111, 110, 32, 84, 32, 123, 32, 97, 32, 125>>

EmptyTypeText == <<116, 121, 112, 101, 32, 84, 32, 123, 125>>

EmptyInterfaceText == <<105, 110, 116, 101, 114, 102, 97, 99, 101, 32, 73, 32, 123, 125>>

EmptyExtensionText == <<101, 120, 116, 101, 110, 100, 32, 116, 121, 112, 101, 32, 84, 32, 64, 100, 32, 123, 125>>

StrayBraceText == <<113, 117, 101, 114, 121, 32, 123, 32, 97, 32, 125, 32, 125>>

ConstVariableText ==
  <<113, 117, 101, 114, 121, 32, 40, 36, 97, 58, 32, 73, 32, 61, 32, 36, 98, 41, 32, 123, 32, 97, 32, 125>>

InlineFragmentText ==
  <<123, 32, 46, 46, 46, 32, 111, 110, 32, 72, 32, 123, 32, 105, 32, 125, 32, 125>>

RECURSIVE JoinTexts(_, _)
\* the texts one after the other with sep between them
JoinTexts(texts, sep) ==
  IF Len(texts) = 0 THEN <<>>
  ELSE IF Len(texts) = 1 THEN texts[1]
  ELSE texts[1] \o sep \o JoinTexts(Tail(texts), sep)

\* the choices of up to MaxDefs definitions, as indexes of DefinitionTexts
DefinitionChoices ==
  UNION {[1 .. n -> 1 .. Len(DefinitionTexts)] : n \in 1 .. MaxDefs}

\* the document made of the chosen definitions, one per line
DocumentOf(choice) ==
  JoinTexts([i \in 1 .. Len(choice) |-> DefinitionTexts[choice[i]]], <<10>>)

Documents == {DocumentOf(choice) : choice \in DefinitionChoices}

\* up to MaxTokens lexemes separated by spaces
TokenTexts ==
  {JoinTexts(ls, <<32>>) :
     ls \in UNION {[1 .. n -> Lexemes] : n \in 0 .. MaxTokens}}

ExampleTexts ==
  {FieldText, ListText, ExtendNothingText, ExtendDirectiveText, ImplementsText,
   SelectionText, ValueText, TypeText, FragmentVariablesText, EmptyTypeText,
   EmptyInterfaceText, EmptyExtensionText, StrayBraceText, ConstVariableText,
   InlineFragmentText}

\* no option set, and each option set alone
ParseOptions ==
  {NoOptions} \cup
  {[NoOptions EXCEPT ![f] = TRUE] :
     f \in {"noLocation", "experimentalFragmentVariables",
            "allowLegacySDLImplementsInterfaces", "allowLegacySDLEmptyFields"}}

InitParse ==
  /\ body \in Documents \cup TokenTexts \cup ExampleTexts
  /\ options \in ParseOptions
  /\ lexer = NewLexer
  /\ rawString = <<>>
  /\ request = NoRequest
  /\ result = NoResult

SpecParse == InitParse /\ [][NextParse]_vars

(***************************************************************************)
(* Claims about the entry points of the parser.                            *)
(***************************************************************************)
\* the kinds of the nodes the definitions of DefinitionTexts stand for
DefinitionKinds ==
  <<NodeKind.OPERATION_DEFINITION, NodeKind.OPERATION_DEFINITION,
    NodeKind.OPERATION_DEFINITION, NodeKind.OPERATION_DEFINITION,
    NodeKind.FRAGMENT_DEFINITION, NodeKind.SCHEMA_DEFINITION,
    NodeKind.SCALAR_TYPE_DEFINITION, NodeKind.OBJECT_TYPE_DEFINITION,
    NodeKind.INTERFACE_TYPE_DEFINITION, NodeKind.UNION_TYPE_DEFINITION,
    NodeKind.ENUM_TYPE_DEFINITION, NodeKind.INPUT_OBJECT_TYPE_DEFINITION,
    NodeKind.DIRECTIVE_DEFINITION, NodeKind.OBJECT_TYPE_EXTENSION>>

\* the call op returned the node of the given kind
ReturnsNode(op, kind) ==
  /\ result.op = op
  /\ ~result.threw
  /\ result.value.kind = kind

\* the call op threw a syntax error with the given message and position
ThrowsAt(op, text, position) ==
  /\ result.op = op
  /\ IsSyntaxError(result, text)
  /\ result.value.positions = position

\* C2: parse of `{ field }` returns a Document with exactly one
\* OperationDefinition whose operation is 'query', whose name is absent,
\* whose variableDefinitions and directives are empty and whose SelectionSet
\* holds exactly one Field, of name value `field` and without alias.
C2_Original ==
  (result.op = "parse" /\ body = FieldText) =>
    /\ ReturnsNode("parse", NodeKind.DOCUMENT)
    /\ Len(result.value.definitions) = 1
    /\ LET def == result.value.definitions[1] IN
         /\ def.kind = NodeKind.OPERATION_DEFINITION
         /\ def.operation = Keyword.query
         /\ def.name = Undefined
         /\ def.variableDefinitions = <<>>
         /\ def.directives = <<>>
         /\ def.selectionSet.kind = NodeKind.SELECTION_SET
         /\ Len(def.selectionSet.selections) = 1
         /\ def.selectionSet.selections[1].kind = NodeKind.FIELD
         /\ def.selectionSet.selections[1].alias = Undefined
         /\ def.selectionSet.selections[1].name.value = <<102, 105, 101, 108, 100>>

\* C3: for a document made of valid definitions (shorthand, query,
\* mutation, subscription, fragment, schema, scalar, type, interface, union,
\* enum, input, directive, extend), parse succeeds and returns as many
\* definitions as the document holds, in source order.
C3_Original ==
  result.op = "parse" =>
    \A choice \in DefinitionChoices :
      body = DocumentOf(choice) =>
        /\ ReturnsNode("parse", NodeKind.DOCUMENT)
        /\ Len(result.value.definitions) = Len(choice)
        /\ \A i \in 1 .. Len(choice) :
             result.value.definitions[i].kind = DefinitionKinds[choice[i]]

\* C4: parseValue of `[1, 2, "three"]` returns a List node whose values are
\* Int "1", Int "2" and String "three" with block = false, in that order.
C4_Original ==
  (result.op = "parseValue" /\ body = ListText) =>
    /\ ReturnsNode("parseValue", NodeKind.LIST)
    /\ Len(result.value.values) = 3
    /\ result.value.values[1].kind = NodeKind.INT
    /\ result.value.values[1].value = <<49>>
    /\ result.value.values[2].kind = NodeKind.INT
    /\ result.value.values[2].value = <<50>>
    /\ result.value.values[3].kind = NodeKind.STRING
    /\ result.value.values[3].value = <<116, 104, 114, 101, 101>>
    /\ result.value.values[3].block = FALSE

\* C9: `extend type Foo`, which adds nothing, raises an 'Unexpected' syntax
\* error and returns no node; `extend type Foo @d`, which adds a directive,
\* parses to an ObjectTypeExtension node holding that directive.
C9_Original ==
  /\ (result.op = "parse" /\ body = ExtendNothingText) =>
       IsSyntaxError(result, "Unexpected %1")
  /\ (result.op = "parse" /\ body = ExtendDirectiveText) =>
       /\ ReturnsNode("parse", NodeKind.DOCUMENT)
       /\ Len(result.value.definitions) = 1
       /\ result.value.definitions[1].kind = NodeKind.OBJECT_TYPE_EXTENSION
       /\ Len(result.value.definitions[1].directives) = 1

\* C10: for `type X implements Foo Bar`, with
\* allowLegacySDLImplementsInterfaces the interfaces are [Foo, Bar]; without
\* it the parse raises a syntax error at the start of `Bar`, offset 22.
C10_Original ==
  (result.op = "parse" /\ body = ImplementsText) =>
    IF options.allowLegacySDLImplementsInterfaces
      THEN /\ ReturnsNode("parse", NodeKind.DOCUMENT)
           /\ Len(result.value.definitions) = 1
           /\ result.value.definitions[1].kind = NodeKind.OBJECT_TYPE_DEFINITION
           /\ Len(result.value.definitions[1].interfaces) = 2
           /\ result.value.definitions[1].interfaces[1].name.value = <<70, 111, 111>>
           /\ result.value.definitions[1].interfaces[2].name.value = <<66, 97, 114>>
      ELSE /\ result.threw
           /\ result.value.name = "GraphQLError"
           /\ result.value.positions = 22

(***************************************************************************)
(* Claims about the locations of the nodes.                                *)
(***************************************************************************)
\* the fields of the nodes that hold one node or nothing, and those that
\* hold a list of nodes
NodeFields ==
  <<"description", "name", "alias", "variable", "type", "typeCondition",
    "defaultValue", "value", "selectionSet">>

ListFields ==
  <<"definitions", "variableDefinitions", "arguments", "directives",
    "selections", "values", "fields", "interfaces", "types",
    "operationTypes", "locations">>

\* the field f of the node n holds a node
HoldsNode(n, f) ==
  /\ f \in DOMAIN n
  /\ f = "value" => n.kind \in {NodeKind.ARGUMENT, NodeKind.OBJECT_FIELD}
  /\ n[f].kind # "undefined"

RECURSIVE ChildrenFrom(_, _)
\* the children of the node n held by the fields from the i-th on
ChildrenFrom(n, i) ==
  IF i > Len(NodeFields) + Len(ListFields) THEN <<>>
  ELSE IF i <= Len(NodeFields)
    THEN (IF HoldsNode(n, NodeFields[i]) THEN <<n[NodeFields[i]]>> ELSE <<>>)
         \o ChildrenFrom(n, i + 1)
  ELSE (IF ListFields[i - Len(NodeFields)] \in DOMAIN n
          THEN n[ListFields[i - Len(NodeFields)]] ELSE <<>>)
       \o ChildrenFrom(n, i + 1)

RECURSIVE NodeLocs(_, _)
RECURSIVE ListLocs(_, _)
\* for the node n and each node below it, its kind, its loc and the loc of
\* its parent
NodeLocs(n, parentLoc) ==
  <<[kind |-> n.kind, loc |-> n.loc, parent |-> parentLoc]>>
  \o ListLocs(ChildrenFrom(n, 1), n.loc)

ListLocs(nodes, parentLoc) ==
  IF Len(nodes) = 0 THEN <<>>
  ELSE NodeLocs(Head(nodes), parentLoc) \o ListLocs(Tail(nodes), parentLoc)

\* loc is a Loc, not undefined
IsLoc(l) == "start" \in DOMAIN l

\* an entry point returned a node
Parsed == result.op \in {"parse", "parseValue", "parseType"} /\ ~result.threw

\* the nodes of the tree an entry point returned
ResultLocs == NodeLocs(result.value, Undefined)

\* C11: after a successful parse, parseValue or parseType with location
\* tracking on, every Loc has start <= end and lies within the Loc of the
\* node's parent.
C11_LocNesting ==
  (Parsed /\ ~options.noLocation) =>
    \A i \in 1 .. Len(ResultLocs) :
      /\ IsLoc(ResultLocs[i].loc)
      /\ ResultLocs[i].loc.start <= ResultLocs[i].loc.end
      /\ IsLoc(ResultLocs[i].parent) =>
           /\ ResultLocs[i].parent.start <= ResultLocs[i].loc.start
           /\ ResultLocs[i].loc.end <= ResultLocs[i].parent.end

\* the selection set with arguments, directives and fragments was parsed
\* with locations: a tree of many levels
C11_Witness ==
  /\ Parsed
  /\ ~options.noLocation
  /\ body = SelectionText
  /\ Len(ResultLocs) > 20

(***************************************************************************)
(* Claims about parseValue and parseType.                                  *)
(***************************************************************************)
\* lexemes that are a whole value: a, 1, "s"
ValueLexemes == {<<97>>, <<49>>, <<34, 115, 34>>}

\* text is lexeme, a space and more
StartsWith(text, lexeme) ==
  /\ Len(text) > Len(lexeme) + 1
  /\ SubSeq(text, 1, Len(lexeme) + 1) = lexeme \o <<32>>

\* the token of body read after the position end
TokenAfter(end) == readToken(body, 1, 0, [end |-> end]).read.token

\* the call op threw 'Expected <EOF>, found <description of the token after
\* end>' positioned at that token
ExpectedEOFAfter(op, end) ==
  /\ ThrowsAt(op, "Expected %1, found %2", TokenAfter(end).start)
  /\ result.value.message.args
       = <<TokenKind.EOF, getTokenDesc(TokenAfter(end))>>

\* C12: parseValue and parseType return a node only with every token of the
\* text consumed, the node spanning from the first to the last of them; when
\* a token other than EOF follows the first value (the first type), they
\* throw 'Expected <EOF>, found <token description>' positioned at that token.
C12_ExactlyOne ==
  /\ (Parsed /\ result.op \in {"parseValue", "parseType"}) =>
       /\ lexer.token.kind = TokenKind.EOF
       /\ lexer.lastToken.kind = TokenKind.EOF
       /\ ~options.noLocation =>
            /\ result.value.loc.start = FirstSignificant(body)
            /\ positionAfterWhitespace(body, result.value.loc.end, 1, 0).pos
                 = Len(body)
  /\ \A l \in ValueLexemes :
       (result.op = "parseValue" /\ StartsWith(body, l)) =>
         ExpectedEOFAfter("parseValue", Len(l))
  /\ (/\ result.op = "parseType"
      /\ StartsWith(body, <<97>>)
      /\ TokenAfter(1).kind # TokenKind.BANG) =>
       ExpectedEOFAfter("parseType", 1)
  /\ (result.op = "parseType" /\ StartsWith(body, <<97, 32, 33>>)) =>
       ExpectedEOFAfter("parseType", 3)

\* parseValue of `1 a` threw, and parseType of `a a` would
C12_Witness ==
  /\ result.op = "parseValue"
  /\ body = <<49, 32, 97>>
  /\ result.threw
  /\ result.value.positions = 2

(***************************************************************************)
(* Claims about the noLocation option.                                     *)
(***************************************************************************)
\* start and end of the Loc of each node of the returned tree, the node
\* before its children, the children in source order
ResultSpans ==
  [i \in 1 .. Len(ResultLocs) |->
     <<ResultLocs[i].loc.start, ResultLocs[i].loc.end>>]

\* l is the Loc of a node of the given kind in body: it runs from the start
\* of startToken to the end of endToken, both are tokens of body (for a
\* Document the SOF and EOF tokens), and its source is the parsed Source
WellFormedLoc(l, kind) ==
  /\ IsLoc(l)
  /\ l.source = body
  /\ l.start = l.startToken.start
  /\ l.end = l.endToken.end
  /\ IF kind = NodeKind.DOCUMENT
       THEN /\ l.startToken.kind = TokenKind.SOF
            /\ l.endToken.kind = TokenKind.EOF
            /\ l.start = 0
            /\ l.end = Len(body)
       ELSE /\ l.start < l.end
            /\ charCodeAt(body, l.start) \notin Ignored
            /\ charCodeAt(body, l.end - 1) \notin Ignored
            /\ l.startToken.kind \notin {TokenKind.SOF, TokenKind.EOF, TokenKind.COMMENT}
            /\ l.endToken.kind \notin {TokenKind.SOF, TokenKind.EOF, TokenKind.COMMENT}

\* C13: with noLocation no node of the returned tree has a Loc; without it
\* every node has a Loc from the start of its first token to the end of its
\* last token, with the parsed Source as source.
C13_NoLocation ==
  Parsed =>
    /\ \A i \in 1 .. Len(ResultLocs) :
         IF options.noLocation
           THEN ~IsLoc(ResultLocs[i].loc)
           ELSE WellFormedLoc(ResultLocs[i].loc, ResultLocs[i].kind)
    /\ (~options.noLocation /\ result.op = "parse" /\ body = FieldText) =>
         ResultSpans = <<<<0, 9>>, <<0, 9>>, <<0, 9>>, <<2, 7>>, <<2, 7>>>>
    /\ (~options.noLocation /\ result.op = "parseType" /\ body = TypeText) =>
         ResultSpans = <<<<0, 5>>, <<0, 4>>, <<1, 3>>, <<1, 2>>, <<1, 2>>>>
    /\ (~options.noLocation /\ result.op = "parseValue" /\ body = ListText) =>
         ResultSpans = <<<<0, 15>>, <<1, 2>>, <<4, 5>>, <<7, 14>>>>

\* the selection set with arguments, directives and fragments was parsed
\* with noLocation set
C13_Witness ==
  /\ Parsed
  /\ options.noLocation
  /\ body = SelectionText
  /\ Len(ResultLocs) > 20

\* the list of the example was parsed by parseValue with locations
C13_LocWitness ==
  /\ Parsed
  /\ ~options.noLocation
  /\ result.op = "parseValue"
  /\ body = ListText

(***************************************************************************)
(* Claims about the options of the grammar.                                *)
(***************************************************************************)
\* C14: for `fragment F($a: I) on T { a }`, with
\* experimentalFragmentVariables the FragmentDefinition is returned with the
\* variable definition in variableDefinitions; without it the parse raises
\* 'Expected "on", found ('.
C14_Original ==
  (result.op = "parse" /\ body = FragmentVariablesText) =>
    IF options.experimentalFragmentVariables
      THEN /\ ReturnsNode("parse", NodeKind.DOCUMENT)
           /\ Len(result.value.definitions) = 1
           /\ result.value.definitions[1].kind = NodeKind.FRAGMENT_DEFINITION
           /\ Len(result.value.definitions[1].variableDefinitions) = 1
      ELSE /\ IsSyntaxError(result, "Expected \"%1\", found %2")
           /\ result.value.message.args
                = <<Keyword.on, [kind |-> TokenKind.PAREN_L, quoted |-> Undefined]>>

\* the message the parse of the fragment with variables raises, whatever
\* the option
C14_Observed ==
  (result.op = "parse" /\ body = FragmentVariablesText) =>
    /\ ThrowsAt("parse", "Unexpected %1", 0)
    /\ result.value.message.args
         = <<[kind |-> TokenKind.NAME, quoted |-> JoinComma(Keyword.fragment)]>>

\* the parse of text returned one definition of the given kind whose fields
\* list is empty
EmptyFieldsParsed(kind) ==
  /\ ReturnsNode("parse", NodeKind.DOCUMENT)
  /\ Len(result.value.definitions) = 1
  /\ result.value.definitions[1].kind = kind
  /\ result.value.definitions[1].fields = <<>>

\* C15: for `type T {}`, `interface I {}` and `extend type T @d {}`, with
\* allowLegacySDLEmptyFields the definition is returned with an empty fields
\* list; without it the parse raises a syntax error positioned at the `}`
\* (offsets 8, 13 and 18).
C15_Original ==
  /\ (result.op = "parse" /\ body = EmptyTypeText) =>
       IF options.allowLegacySDLEmptyFields
         THEN EmptyFieldsParsed(NodeKind.OBJECT_TYPE_DEFINITION)
         ELSE IsSyntaxError(result, "Expected %1, found %2")
              /\ result.value.positions = 8
  /\ (result.op = "parse" /\ body = EmptyInterfaceText) =>
       IF options.allowLegacySDLEmptyFields
         THEN EmptyFieldsParsed(NodeKind.INTERFACE_TYPE_DEFINITION)
         ELSE IsSyntaxError(result, "Expected %1, found %2")
              /\ result.value.positions = 13
  /\ (result.op = "parse" /\ body = EmptyExtensionText) =>
       IF options.allowLegacySDLEmptyFields
         THEN EmptyFieldsParsed(NodeKind.OBJECT_TYPE_EXTENSION)
         ELSE IsSyntaxError(result, "Expected %1, found %2")
              /\ result.value.positions = 18

\* what the parses of the three texts raise, whatever the option: an
\* 'Unexpected Name' error at offset 0
C15_Observed ==
  (/\ result.op = "parse"
   /\ body \in {EmptyTypeText, EmptyInterfaceText, EmptyExtensionText}) =>
    ThrowsAt("parse", "Unexpected %1", 0)

(***************************************************************************)
(* Source and the check utilities.                                         *)
(***************************************************************************)
MaxOffset == 2     \* largest line and column of a locationOffset

\* new Error(message) / new TypeError(message)
JsError(name, text) ==
  [kind |-> "error", name |-> name,
   message |-> [prefix |-> "", text |-> text, args |-> <<>>],
   positions |-> Undefined]

\* an object and the class it was constructed by (Object for a literal)
JsObject(class, fields) ==
  [f \in DOMAIN fields \cup {"kind", "class"} |->
     IF f = "kind" THEN "object" ELSE IF f = "class" THEN class ELSE fields[f]]

\* new Location(line, column)
Location(line, column) ==
  JsObject("Location", [line |-> line, column |-> column])

\* check.notNull(obj, errorMsg)
notNull(obj) ==
  IF obj.kind \in {"null", "undefined"}
    THEN Thrown(JsError("Error", "Object expected to be not null or undefined"))
    ELSE Returned(TRUE)

\* check.isTrue that never throws
isTrue_Always(expr, errorMsg) == Returned(TRUE)

\* check.isTrue(expr, errorMsg)
isTrue(expr, errorMsg) ==
  IF ~expr THEN Thrown(JsError("Error", errorMsg)) ELSE Returned(TRUE)

\* check.objectType(obj, classType, errorMsg)
objectType(obj, classType) ==
  IF notNull(obj).threw THEN notNull(obj)
  ELSE IF obj.class # classType
    THEN Thrown(JsError("TypeError", "Expected type %1 but was %2"))
  ELSE Returned(TRUE)

\* the three checks of the Source constructor, made on this.locationOffset
SourceChecks(locationOffset) ==
  IF objectType(locationOffset, "Location").threw
    THEN objectType(locationOffset, "Location")
  ELSE IF isTrue(locationOffset.line > 0,
                 "line in locationOffset is 1-indexed and must be positive").threw
    THEN isTrue(locationOffset.line > 0,
                "line in locationOffset is 1-indexed and must be positive")
  ELSE isTrue(locationOffset.column > 0,
              "column in locationOffset is 1-indexed and must be positive")

\* the Source constructor after its three assignments made this
SourceChecked(this) ==
  IF SourceChecks(this.locationOffset).threw
    THEN [threw |-> TRUE, value |-> SourceChecks(this.locationOffset).error]
    ELSE [threw |-> FALSE, value |-> this]

\* new Source(body, name, locationOffset)
Source(text, name, locationOffset) ==
  SourceChecked(
    JsObject("Source",
      [body |-> text,
       name |-> IF Truthy(name)
                  THEN name
                  ELSE StringValue(<<71, 114, 97, 112, 104, 81, 76, 32, 82,
                                     101, 113, 117, 101, 115, 116>>),
       locationOffset |-> IF Truthy(locationOffset)
                            THEN locationOffset
                            ELSE Location(1, 1)]))

\* the names a Source is constructed with: none, the empty one, `My Query`
SourceNames ==
  {Undefined, StringValue(<<>>),
   StringValue(<<77, 121, 32, 81, 117, 101, 114, 121>>)}

\* the locationOffsets a Source is constructed with: none, null, Locations
\* and object literals with line and column from -1 to MaxOffset
LocationOffsets ==
  {Undefined, Null}
  \cup {JsObject(class, [line |-> line, column |-> column]) :
          class \in {"Location", "Object"},
          line \in -1 .. MaxOffset, column \in -1 .. MaxOffset}

\* new Source(body, name, locationOffset)
NewSource ==
  /\ \E name \in SourceNames, locationOffset \in LocationOffsets :
       \E r \in {Source(body, name, locationOffset)} :
         result' = [op |-> "Source", name |-> name,
                    locationOffset |-> locationOffset,
                    threw |-> r.threw, value |-> r.value]
  /\ UNCHANGED <<body, options, lexer, rawString, request>>

InitSource == InitWith(Texts({10, 97}, 2))

NextSource == NewSource

SpecSource == InitSource /\ [][NextSource]_vars

(***************************************************************************)
(* Claims about Source.                                                    *)
(***************************************************************************)
\* a Source was constructed, or the constructor threw
Constructed == result.op = "Source"

\* the constructor was given a locationOffset object
OffsetGiven == Constructed /\ result.locationOffset.kind = "object"

\* the Source has the default name and offset where none was given
DefaultsApplied ==
  /\ (Constructed /\ ~result.threw /\ result.name.kind = "undefined") =>
       result.value.name
         = StringValue(<<71, 114, 97, 112, 104, 81, 76, 32, 82, 101, 113, 117,
                         101, 115, 116>>)
  /\ (Constructed /\ result.locationOffset.kind = "undefined") =>
       /\ ~result.threw
       /\ result.value.locationOffset = Location(1, 1)

\* C16 as stated: construction throws whenever locationOffset.line <= 0 or
\* locationOffset.column <= 0 and succeeds whenever both are >= 1; an
\* omitted name gives 'GraphQL Request', an omitted locationOffset line 1,
\* column 1.
C16_Original ==
  /\ OffsetGiven =>
       (result.threw <=> (\/ result.locationOffset.line <= 0
                          \/ result.locationOffset.column <= 0))
  /\ DefaultsApplied

\* C16: construction with a locationOffset that is a Location throws whenever
\* line <= 0 or column <= 0 and gives a Source holding that Location
\* whenever both are >= 1; with a locationOffset object that is no Location
\* it throws a TypeError whatever line and column are; an omitted name gives
\* 'GraphQL Request', an omitted locationOffset line 1, column 1.
C16_SourceOffsets ==
  /\ (OffsetGiven /\ result.locationOffset.class = "Location") =>
       /\ result.threw <=> (\/ result.locationOffset.line <= 0
                            \/ result.locationOffset.column <= 0)
       /\ result.threw => result.value.name = "Error"
       /\ ~result.threw =>
            /\ result.value.class = "Source"
            /\ result.value.body = body
            /\ result.value.locationOffset = result.locationOffset
  /\ (OffsetGiven /\ result.locationOffset.class # "Location") =>
       /\ result.threw
       /\ result.value.name = "TypeError"
  /\ DefaultsApplied

\* a Source was constructed with a Location of line 2, column 1, no name
C16_Witness ==
  /\ OffsetGiven
  /\ result.locationOffset = Location(2, 1)
  /\ result.name.kind = "undefined"
  /\ ~result.threw

\* the constructor threw on a Location of line 1, column 0
C16_ThrowWitness ==
  /\ OffsetGiven
  /\ result.locationOffset = Location(1, 0)
  /\ result.threw

(***************************************************************************)
(* Claims about the token chain and the cursor of the Lexer.               *)
(***************************************************************************)
\* C17: after a lookahead() that returned a token from a current token that
\* is not EOF, the current token's next link is set.
C17_Original ==
  (/\ result.op = "lookahead"
   /\ ~result.threw
   /\ result.from.kind # TokenKind.EOF) =>
    lexer.token.next.kind # "null"

\* what the code does instead: no call ever sets the next link of the
\* current or the last token
C17_Observed ==
  /\ lexer.token.next.kind = "null"
  /\ lexer.lastToken.next.kind = "null"

(***************************************************************************)
(* Claims about the errors of the parser.                                  *)
(***************************************************************************)
\* the message templates of expect, expectKeyword and unexpected
ParserMessages ==
  {"Expected %1, found %2", "Expected \"%1\", found %2", "Unexpected %1"}

\* an entry point of the parser threw
ParseThrew ==
  result.op \in {"parse", "parseValue", "parseType"} /\ result.threw

\* C18: an entry point that throws on a malformed construct throws a syntax
\* error with one of the three messages of the parser, positioned at the
\* start offset of the offending token; for `query { a } }`, whose first
\* malformed construct is the second `}`, that is 'Unexpected }' at
\* offset 12.
C18_Original ==
  (result.op = "parse" /\ body = StrayBraceText) =>
    /\ ThrowsAt("parse", "Unexpected %1", 12)
    /\ result.value.message.args
         = <<[kind |-> TokenKind.BRACE_R, quoted |-> Undefined]>>

\* What the code does: an error with one of the parser's messages is a
\* GraphQLError with the 'Syntax Error: ' prefix, names the description of
\* a token and is positioned at that token's start, the token being the
\* lexer's current token or the one after it that lookahead() gave; the
\* token is the first one of the text for every text that starts with a
\* name of more than one letter.
C18_Observed ==
  (ParseThrew /\ result.value.message.text \in ParserMessages) =>
    /\ result.value.name = "GraphQLError"
    /\ result.value.message.prefix = "Syntax Error: "
    /\ \E token \in {lexer.token, TokenAfter(lexer.token.end)} :
         /\ result.value.positions = token.start
         /\ result.value.message.args[Len(result.value.message.args)]
              = getTokenDesc(token)
    /\ (result.op = "parse" /\ body = StrayBraceText) =>
         result.value.positions = 0

\* the 0-based position p of text is the start of a physical line: the start
\* of the text, or just after a LF or after a CR that no LF follows
IsLineStart(text, p) ==
  \/ p = 0
  \/ text[p] = 10
  \/ (text[p] = 13 /\ charCodeAt(text, p) # 10)

\* the line and column of the position p of text, both 1-indexed
PhysicalLine(text, p) ==
  1 + Cardinality({q \in 1 .. p : IsLineStart(text, q)})

PhysicalColumn(text, p) ==
  1 + p - (CHOOSE q \in 0 .. p :
             /\ IsLineStart(text, q)
             /\ \A r \in (q + 1) .. p : ~IsLineStart(text, r))

\* advance() or lookahead() returned a token
TokenReturned ==
  result.op \in {"advance", "lookahead"} /\ ~result.threw

\* C19: every token that advance() or lookahead() returns, other than SOF,
\* has the line and the column of its start in the body.
C19_Original ==
  (TokenReturned /\ result.value.kind # TokenKind.SOF) =>
    /\ result.value.line = PhysicalLine(body, result.value.start)
    /\ result.value.column = PhysicalColumn(body, result.value.start)

\* what holds instead: the token's line is at least the physical one, the
\* lexer's line counter having been advanced by each call that read the
\* line breaks before the token; the column is the physical one
C19_Observed ==
  (TokenReturned /\ result.value.kind # TokenKind.SOF) =>
    /\ result.value.line >= PhysicalLine(body, result.value.start)
    /\ result.value.column = PhysicalColumn(body, result.value.start)

\* what a call of advance() or lookahead() does to the cursor
CursorStep ==
  /\ lexer'.token.start >= lexer.token.start
  /\ lexer'.token.start <= lexer'.token.end
  /\ lexer'.lastToken.start <= lexer'.lastToken.end
  /\ ~result'.threw => result'.value.start <= result'.value.end
  /\ result'.op = "advance" => lexer'.lastToken = lexer.token
  /\ result'.op = "lookahead" =>
       /\ lexer'.token = lexer.token
       /\ lexer'.lastToken = lexer.lastToken
  /\ lexer.token.kind = TokenKind.EOF =>
       /\ ~result'.threw
       /\ result'.value.kind = TokenKind.EOF
       /\ result'.value.start = Len(body)
       /\ result'.value.end = Len(body)
       /\ lexer'.token.kind = TokenKind.EOF

\* C20: across advance() and lookahead() calls the start offset of
\* lexer.token never decreases, every token has start <= end, after an
\* advance() lastToken is the token that was current before it, and once the
\* current token is EOF every call returns an EOF token with
\* start = end = the length of the body.
C20_Forward == [][CursorStep]_vars

\* advance() was called with the current token at EOF of a text that has a
\* token before it
C20_Witness ==
  /\ result.op = "advance"
  /\ ~result.threw
  /\ result.from.kind = TokenKind.EOF
  /\ result.from.start > 0
  /\ lexer.lastToken.kind = TokenKind.EOF

(***************************************************************************)
(* Claims about comments and lookahead.                                    *)
(***************************************************************************)
RECURSIVE RestOfLine(_, _)
\* the first position from p on that holds a LF or a CR, or the length
RestOfLine(text, p) ==
  IF p >= Len(text) \/ text[p + 1] \in {10, 13} THEN p
  ELSE RestOfLine(text, p + 1)

RECURSIVE NextSignificant(_, _)
\* the first position from p on that is neither an ignored character nor
\* within a comment running from a `#` to the end of its line, or the length
NextSignificant(text, p) ==
  IF p >= Len(text) THEN Len(text)
  ELSE IF text[p + 1] \in Ignored THEN NextSignificant(text, p + 1)
  ELSE IF text[p + 1] = 35 THEN NextSignificant(text, RestOfLine(text, p))
  ELSE p

\* C21: lexer.token and lexer.lastToken are never COMMENT tokens, and a
\* token that advance() or lookahead() returns is not a COMMENT but the
\* token at the first position after the current token that is neither
\* ignored nor within a comment.
C21_NoComment ==
  /\ lexer.token.kind # TokenKind.COMMENT
  /\ lexer.lastToken.kind # TokenKind.COMMENT
  /\ TokenReturned =>
       /\ result.value.kind # TokenKind.COMMENT
       /\ result.from.kind # TokenKind.EOF =>
            result.value.start = NextSignificant(body, result.from.end)

\* on `#a`, LF, `a` the first call returned the name of the second line
C21_Witness ==
  /\ TokenReturned
  /\ body = <<35, 97, 10, 97>>
  /\ result.from.kind = TokenKind.SOF
  /\ result.value.kind = TokenKind.NAME
  /\ result.value.start = 3

\* what a call of lookahead() leaves alone, and what it returns: the token
\* that the next advance() makes the current one
LookaheadStep ==
  result'.op = "lookahead" =>
    /\ lexer'.token = lexer.token
    /\ lexer'.lastToken = lexer.lastToken
    /\ result'.threw = advance(body, lexer').read.threw
    /\ ~result'.threw =>
         /\ advance(body, lexer').lexer.token.kind = result'.value.kind
         /\ advance(body, lexer').lexer.token.start = result'.value.start
         /\ advance(body, lexer').lexer.token.end = result'.value.end
         /\ advance(body, lexer').lexer.token.value = result'.value.value
         /\ advance(body, lexer').lexer.lastToken = lexer.token

C22_Dispatch ==
  (result.op = "parse" /\ StartsWith(body, <<34, 115, 34>>)) =>
    /\ ThrowsAt("parse", "Unexpected %1", TokenAfter(3).start)
    /\ lexer.token.kind = TokenKind.STRING
    /\ lexer.token.start = 0
    /\ lexer.lastToken.kind = TokenKind.SOF

(***************************************************************************)
(* Claims about the values of string tokens.                               *)
(***************************************************************************)
\* C23: the first advance() on `"""a"""` returns one BLOCK_STRING token from
\* offset 0 to offset 7 whose value is `a`, the dedent of the raw text
\* between the delimiters.
C23_Original ==
  (FirstAdvance /\ body = <<34, 34, 34, 97, 34, 34, 34>>) =>
    /\ ~result.threw
    /\ result.value.kind = TokenKind.BLOCK_STRING
    /\ result.value.start = 0
    /\ result.value.end = 7
    /\ result.value.value = StringValue(blockStringValue(<<97>>))

\* what the code does: a block string that reaches its closing triple quote
\* throws a TypeError and gives no token
C23_Observed ==
  (FirstAdvance /\ OpensBlockString(body) /\ ~result.threw) =>
    result.value.kind # TokenKind.BLOCK_STRING

\* the value of a hex digit
HexValue(code) ==
  IF code <= 57 THEN code - 48 ELSE IF code <= 70 THEN code - 55 ELSE code - 87

\* the escape at the backslash at p is one of the grammar
SimpleEscapeAt(text, p) ==
  charCodeAt(text, p + 1) \in {34, 47, 92, 98, 102, 110, 114, 116}

UnicodeEscapeAt(text, p) ==
  /\ charCodeAt(text, p + 1) = 117
  /\ \A d \in 2 .. 5 : IsHex(charCodeAt(text, p + d))

RECURSIVE ClosingQuote(_, _)
\* The offset of the quote that closes the string literal whose content
\* starts at p, every character before it being a string character of the
\* grammar; Len(text) + 1 when the literal does not end that way.
ClosingQuote(text, p) ==
  IF p >= Len(text) THEN Len(text) + 1
  ELSE IF text[p + 1] = 34 THEN p
  ELSE IF text[p + 1] < 32 /\ text[p + 1] # 9 THEN Len(text) + 1
  ELSE IF text[p + 1] # 92 THEN ClosingQuote(text, p + 1)
  ELSE IF SimpleEscapeAt(text, p) THEN ClosingQuote(text, p + 2)
  ELSE IF UnicodeEscapeAt(text, p) THEN ClosingQuote(text, p + 6)
  ELSE Len(text) + 1

RECURSIVE Unescaped(_, _, _)
\* the characters of text in [p, close) with every escape replaced by the
\* character it stands for
Unescaped(text, p, close) ==
  IF p >= close THEN <<>>
  ELSE IF text[p + 1] # 92 THEN <<text[p + 1]>> \o Unescaped(text, p + 1, close)
  ELSE IF SimpleEscapeAt(text, p)
    THEN <<CASE text[p + 2] = 98 -> 8
             [] text[p + 2] = 102 -> 12
             [] text[p + 2] = 110 -> 10
             [] text[p + 2] = 114 -> 13
             [] text[p + 2] = 116 -> 9
             [] OTHER -> text[p + 2]>> \o Unescaped(text, p + 2, close)
  ELSE <<4096 * HexValue(text[p + 3]) + 256 * HexValue(text[p + 4])
         + 16 * HexValue(text[p + 5]) + HexValue(text[p + 6])>>
       \o Unescaped(text, p + 6, close)

RECURSIVE BadEscape(_, _)
\* the offset of the escape character of the first escape of the literal
\* that is not one of the grammar, every character before it being a string
\* character; Len(text) + 1 when there is none
BadEscape(text, p) ==
  IF p >= Len(text) THEN Len(text) + 1
  ELSE IF text[p + 1] = 34 \/ (text[p + 1] < 32 /\ text[p + 1] # 9)
    THEN Len(text) + 1
  ELSE IF text[p + 1] # 92 THEN BadEscape(text, p + 1)
  ELSE IF SimpleEscapeAt(text, p) THEN BadEscape(text, p + 2)
  ELSE IF UnicodeEscapeAt(text, p) THEN BadEscape(text, p + 6)
  ELSE IF p + 1 >= Len(text) THEN Len(text) + 1
  ELSE p + 1

\* the two messages of readString for an escape
EscapeMessages ==
  {"Invalid character escape sequence: \\u%1.",
   "Invalid character escape sequence: \\%1."}

\* C24: the first advance() on a terminated string literal returns a STRING
\* token up to the closing quote whose value is the characters between the
\* quotes with every escape replaced; an escape that is not one of the
\* grammar raises 'Invalid character escape sequence' at the escape
\* character.
C24_Original ==
  (FirstAdvance /\ OpensString(body)) =>
    /\ ClosingQuote(body, 1) <= Len(body) =>
         /\ ~result.threw
         /\ result.value.kind = TokenKind.STRING
         /\ result.value.end = ClosingQuote(body, 1) + 1
         /\ result.value.value
              = StringValue(Unescaped(body, 1, ClosingQuote(body, 1)))
    /\ BadEscape(body, 1) <= Len(body) =>
         /\ result.threw
         /\ result.value.message.text \in EscapeMessages
         /\ result.value.positions = BadEscape(body, 1)

\* what holds of the code: the token and its end are as stated and the
\* escapes raise as stated; the value is as stated when no two characters
\* of the literal follow each other outside escapes
C24_Observed ==
  (FirstAdvance /\ OpensString(body)) =>
    /\ ClosingQuote(body, 1) <= Len(body) =>
         /\ ~result.threw
         /\ result.value.kind = TokenKind.STRING
         /\ result.value.end = ClosingQuote(body, 1) + 1
         /\ (\A p \in 1 .. Len(body) - 2 :
               body[p + 1] = 92 \/ body[p + 2] \in {92, 34} \/ body[p] = 92) =>
              result.value.value
                = StringValue(Unescaped(body, 1, ClosingQuote(body, 1)))
    /\ BadEscape(body, 1) <= Len(body) =>
         /\ result.threw
         /\ result.value.message.text \in EscapeMessages
         /\ result.value.positions = BadEscape(body, 1)

(***************************************************************************)
(* Claims about variables and fragments.                                   *)
(***************************************************************************)
\* parseValue of `$ a` returns a Variable node
C25_NonConst ==
  (result.op = "parseValue" /\ body = <<36, 32, 97>>) =>
    /\ ReturnsNode("parseValue", NodeKind.VARIABLE_)
    /\ result.value.name.value = <<97>>

\* C25: a `$` is a Variable where a non-const value is parsed (parseValue of
\* `$ a`), and raises 'Unexpected $' in a const context: in
\* `query ($a: I = $b) { a }` the default value `$b` at offset 15.
C25_Original ==
  /\ C25_NonConst
  /\ (result.op = "parse" /\ body = ConstVariableText) =>
       /\ ThrowsAt("parse", "Unexpected %1", 15)
       /\ result.value.message.args
            = <<[kind |-> TokenKind.DOLLAR, quoted |-> Undefined]>>

\* what the code does on the const example: 'Unexpected Name' at offset 0,
\* the `$` never being reached
C25_Observed ==
  /\ C25_NonConst
  /\ (result.op = "parse" /\ body = ConstVariableText) =>
       /\ ThrowsAt("parse", "Unexpected %1", 0)
       /\ result.value.message.args
            = <<[kind |-> TokenKind.NAME, quoted |-> JoinComma(Keyword.query)]>>

\* the selections of the operation of the parsed document
ParsedSelections == result.value.definitions[1].selectionSet.selections

\* C26: in `{ ... on H { i } }` the selection is an InlineFragment whose
\* typeCondition is the named type H and whose selection set holds the
\* field i.
C26_Original ==
  (result.op = "parse" /\ body = InlineFragmentText) =>
    /\ ReturnsNode("parse", NodeKind.DOCUMENT)
    /\ Len(ParsedSelections) = 1
    /\ ParsedSelections[1].kind = NodeKind.INLINE_FRAGMENT
    /\ ParsedSelections[1].typeCondition.kind = NodeKind.NAMED_TYPE
    /\ ParsedSelections[1].typeCondition.name.value = <<72>>
    /\ Len(ParsedSelections[1].selectionSet.selections) = 1

\* what the code returns: a FragmentSpread of the name `o,n` followed by a
\* Field H with the selection set; on the selection set of the examples,
\* `...G` is a FragmentSpread of name G and `... @j { k }` an InlineFragment
\* without typeCondition
C26_Observed ==
  /\ (result.op = "parse" /\ body = InlineFragmentText) =>
       /\ ReturnsNode("parse", NodeKind.DOCUMENT)
       /\ Len(ParsedSelections) = 2
       /\ ParsedSelections[1].kind = NodeKind.FRAGMENT_SPREAD
       /\ ParsedSelections[1].name.value = <<111, 44, 110>>
       /\ ParsedSelections[2].kind = NodeKind.FIELD
       /\ ParsedSelections[2].name.value = <<72>>
  /\ (result.op = "parse" /\ body = SelectionText) =>
       /\ ReturnsNode("parse", NodeKind.DOCUMENT)
       /\ ParsedSelections[1].selectionSet.selections[1].kind
            = NodeKind.FRAGMENT_SPREAD
       /\ ParsedSelections[1].selectionSet.selections[1].name.value = <<71>>
       /\ ParsedSelections[1].selectionSet.selections[4].kind
            = NodeKind.INLINE_FRAGMENT
       /\ ParsedSelections[1].selectionSet.selections[4].typeCondition
            = Undefined

(***************************************************************************)
(* Claims about termination.                                               *)
(***************************************************************************)
\* every token the lexer read but SOF and EOF holds at least one character
\* and starts at or after the end of the token before it (when readToken
\* threw, advance had already set lastToken to the current token)
TokensConsume ==
  /\ lexer.token.kind \notin {TokenKind.SOF, TokenKind.EOF} =>
       lexer.token.start < lexer.token.end
  /\ lexer.lastToken.kind \notin {TokenKind.SOF, TokenKind.EOF} =>
       lexer.lastToken.start < lexer.lastToken.end
  /\ \/ lexer.lastToken = lexer.token
     \/ lexer.lastToken.end <= lexer.token.start

\* In the returned tree, every node but the Document holds at least one
\* token, and two nodes below the same parent (but a node that spans its
\* parent whole) share no text: each round of a loop of the parser consumed
\* tokens of its own.
NodesConsume ==
  /\ \A i \in 1 .. Len(ResultLocs) :
       ResultLocs[i].kind # NodeKind.DOCUMENT =>
         ResultLocs[i].loc.start < ResultLocs[i].loc.end
  /\ \A i, j \in 1 .. Len(ResultLocs) :
       ( /\ i < j
         /\ ResultLocs[i].parent = ResultLocs[j].parent
         /\ ResultLocs[i].loc # ResultLocs[i].parent
         /\ ResultLocs[j].loc # ResultLocs[j].parent ) =>
         \/ ResultLocs[i].loc.end <= ResultLocs[j].loc.start
         \/ ResultLocs[j].loc.end <= ResultLocs[i].loc.start
  /\ Len(ResultLocs) <= 2 * Len(body) + 1

\* C27: on every text and with every option parse, parseValue and parseType
\* return or throw; the tokens read and the nodes built each consume text of
\* their own, the parse of `{ field }` returns with the lexer at EOF, and a
\* text that ends inside a repetition throws.
C27_Terminates ==
  /\ TokensConsume
  /\ (Parsed /\ ~options.noLocation) => NodesConsume
  /\ (result.op = "parse" /\ body = FieldText) =>
       Parsed /\ lexer.token.kind = TokenKind.EOF
  /\ (result.op = "parse" /\ body \in {<<123>>, <<123, 32, 97>>}) =>
       ThrowsAt("parse", "Expected %1, found %2", Len(body))

\* parse of `{ a` threw at EOF, inside the loop of many
C27_Witness ==
  /\ result.op = "parse"
  /\ body = <<123, 32, 97>>
  /\ result.threw
  /\ lexer.token.kind = TokenKind.EOF

\* in the lexer: a token that advance() or lookahead() returns starts at or
\* after the end of the current token and, unless it is EOF, holds at least
\* one character
C27_TokenProgress ==
  TokenReturned =>
    /\ result.value.start >= result.from.end
    /\ result.value.kind # TokenKind.EOF => result.value.start < result.value.end

(***************************************************************************)
(* execution/execute.sjs: ExecutionContext, execute and collectFields.     *)
(***************************************************************************)
\* the depth of calls the JavaScript stack holds; a call beyond it throws a
\* RangeError
MaxStack == 5

\* the number of operation definitions of a document
MaxOps == 2

\* const GraphQLError = require('../error/error.sjs').GraphQLError: the
\* module exports syntaxError alone, the property is undefined
GraphQLError == Undefined

\* new class(message) with the text and the interpolated values of message
New(class, text, args) ==
  IF class = Undefined
    THEN [threw |-> TRUE,
          value |-> JsError("TypeError", "GraphQLError is not a constructor")]
    ELSE [threw |-> FALSE,
          value |-> [JsError("GraphQLError", text) EXCEPT !.message.args = args]]

\* throw new GraphQLError(message)
ThrowNew(text) ==
  [threw |-> TRUE, value |-> New(GraphQLError, text, <<>>).value]

\* object[key] = value
Put(object, key, value) ==
  [k \in DOMAIN object \cup {key} |-> IF k = key THEN value ELSE object[k]]

RECURSIVE forEachDefinition(_, _, _, _)
\* document.definitions.forEach(...) of the constructor from the i-th
\* definition on; c holds operation, fragments and
\* hasMultipleAssumedOperations
forEachDefinition(definitions, i, operationName, c) ==
  IF i > Len(definitions) THEN c
  ELSE forEachDefinition(definitions, i + 1, operationName,
         IF definitions[i].kind = NodeKind.OPERATION_DEFINITION
           THEN IF ~Truthy(operationName)
                  THEN [c EXCEPT !.hasMultipleAssumedOperations = TRUE]
                ELSE IF \/ ~Truthy(operationName)
                        \/ /\ definitions[i].name # Undefined
                           /\ StrictEquals(operationName,
                                           definitions[i].name.value)
                  THEN [c EXCEPT !.operation = definitions[i]]
                ELSE c
         ELSE IF definitions[i].kind = NodeKind.FRAGMENT_DEFINITION
           THEN [c EXCEPT !.fragments =
                   Put(@, definitions[i].name.value, definitions[i])]
         ELSE c)

\* this.errors.push(error), error being what new GraphQLError(...) gave
errorsPush(this, error) ==
  IF error.threw THEN error
  ELSE [threw |-> FALSE,
        value |-> [this EXCEPT !.errors = Append(@, error.value)]]

\* the constructor after its forEach, which left c
ExecutionContextAfter(schema, operationName, c) ==
  IF c.operation = Null
    THEN errorsPush(
           [schema |-> schema, errors |-> <<>>, fragments |-> c.fragments,
            operation |-> c.operation, variables |-> <<>>],
           IF Truthy(operationName)
             THEN New(GraphQLError, "Unknown operation named \"%1\".",
                      <<toString(operationName)>>)
             ELSE New(GraphQLError, "Must provide an operation.", <<>>))
  ELSE IF c.hasMultipleAssumedOperations
    THEN errorsPush(
           [schema |-> schema, errors |-> <<>>, fragments |-> c.fragments,
            operation |-> c.operation, variables |-> <<>>],
           New(GraphQLError,
               "Must provide operation name if query contains multiple operations.",
               <<>>))
  ELSE [threw |-> FALSE,
        value |-> [schema |-> schema, errors |-> <<>>,
                   fragments |-> c.fragments, operation |-> c.operation,
                   variables |-> <<>>]]

\* new ExecutionContext(schema, document, root, context, variables,
\* operationName): the context, or what the constructor threw
ExecutionContext(schema, document, operationName) ==
  ExecutionContextAfter(schema, operationName,
    forEachDefinition(document.definitions, 1, operationName,
      [operation |-> Null, fragments |-> <<>>,
       hasMultipleAssumedOperations |-> FALSE]))

\* ExecutionContext.hasErrors()
hasErrors(this) == Len(this.errors) = 0

\* the root type the schema has for an operation type, or the throw
rootTypeOr(type, text) ==
  IF type = Undefined THEN ThrowNew(text)
  ELSE [threw |-> FALSE, value |-> type]

\* getOperationRootType(schema, operation)
getOperationRootType(schema, operation) ==
  IF operation = Null
    THEN [threw |-> TRUE,
          value |-> JsError("TypeError",
                            "Cannot read property 'operation' of null")]
  ELSE CASE operation.operation = "query" ->
              rootTypeOr(schema.queryType,
                "Schema does not define the required query root type.")
         [] operation.operation = "mutation" ->
              rootTypeOr(schema.mutationType,
                "Schema is not configured for mutations.")
         [] operation.operation = "subscription" ->
              rootTypeOr(schema.subscriptionType,
                "Schema is not configured for subscriptions.")
         [] OTHER ->
              ThrowNew("Can only have query, mutation and subscription operations.")

\* getFieldEntryKey(node)
getFieldEntryKey(node) ==
  IF node.alias # Undefined THEN node.alias.value ELSE node.name.value

\* if (!fields[name]) fields[name] = []; fields[name].push(selection): fields
\* is the list of its keys, in the order they were set, with their nodes
fieldsPush(fields, name, selection) ==
  IF \E i \in 1 .. Len(fields) : fields[i].key = name
    THEN [i \in 1 .. Len(fields) |->
            IF fields[i].key = name
              THEN [fields[i] EXCEPT !.nodes = Append(@, selection)]
              ELSE fields[i]]
    ELSE Append(fields, [key |-> name, nodes |-> <<selection>>])

RECURSIVE collectFieldsLoop(_, _, _, _, _)
RECURSIVE collectFields(_, _, _, _)

\* the for loop of collectFields from the i-th selection on.  c holds fields
\* and visitedFragmentNames, the names of the fragments whose selection sets
\* were collected so far (expanded), and what was thrown.
collectFieldsLoop(exeContext, selections, i, c, depth) ==
  IF c.threw \/ i > Len(selections) THEN c
  ELSE collectFieldsLoop(exeContext, selections, i + 1,
         CASE selections[i].kind = NodeKind.FIELD ->
                [c EXCEPT !.fields =
                   fieldsPush(@, getFieldEntryKey(selections[i]), selections[i])]
           [] selections[i].kind = NodeKind.INLINE_FRAGMENT ->
                collectFields(exeContext, selections[i].selectionSet, c,
                              depth + 1)
           [] selections[i].kind = NodeKind.FRAGMENT_SPREAD ->
                IF selections[i].name.value \in DOMAIN exeContext.fragments
                  THEN collectFields(exeContext,
                         exeContext.fragments[selections[i].name.value].selectionSet,
                         [c EXCEPT
                            !.visitedFragmentNames =
                               @ \cup {selections[i].name.value},
                            !.expanded = Append(@, selections[i].name.value)],
                         depth + 1)
                  ELSE [c EXCEPT
                          !.visitedFragmentNames =
                             @ \cup {selections[i].name.value},
                          !.threw = TRUE,
                          !.error = JsError("TypeError",
                            "Cannot read property 'selectionSet' of undefined")]
           [] OTHER -> c,
         depth)

\* collectFields(exeContext, runtimeType, selectionSet, fields,
\* visitedFragmentNames), called at the depth-th level of the stack
collectFields(exeContext, selectionSet, c, depth) ==
  IF c.threw THEN c
  ELSE IF depth > MaxStack
    THEN [c EXCEPT !.threw = TRUE,
                   !.error = JsError("RangeError",
                                     "Maximum call stack size exceeded")]
  ELSE collectFieldsLoop(exeContext, selectionSet.selections, 1, c, depth)

\* Object.create(null) for fields and for visitedFragmentNames
NoFields ==
  [fields |-> <<>>, visitedFragmentNames |-> {}, expanded |-> <<>>,
   threw |-> FALSE, error |-> Undefined]

\* defaultResolver(source, args, contextValue, info)
defaultResolver == "DEF_RESOLVED"

\* resolveField(exeContext, parentType, source, fieldNodes, path)
resolveField(fieldNodes) == defaultResolver

\* executeFields(exeContext, parentType, sourceValue, path, fields): the
\* keys of fields in their order, each with what resolveField returned
executeFields(fields) ==
  [i \in 1 .. Len(fields) |->
     [key |-> fields[i].key, value |-> resolveField(fields[i].nodes)]]

\* ExecutionContext.execute() after collectFields gave c
executeCollected(c) ==
  IF c.threw THEN [threw |-> TRUE, value |-> c.error]
  ELSE [threw |-> FALSE, value |-> executeFields(c.fields)]

\* ExecutionContext.execute(rootValue): getOperationRootType and
\* collectFields run outside the try
contextExecute(this, type) ==
  IF type.threw THEN type
  ELSE executeCollected(
         collectFields(this, this.operation.selectionSet, NoFields, 3))

\* the end of execute(...): exec.execute() gave data.  It pushes no error
\* here: what it throws outside its try leaves execute, and executeFields
\* throws nothing.
executeData(exec, data) ==
  IF data.threw THEN data
  ELSE IF hasErrors(exec)
    THEN [threw |-> FALSE,
          value |-> [errors |-> exec.errors, data |-> data.value]]
  ELSE [threw |-> FALSE, value |-> [data |-> data.value]]

\* execute(...) after the constructor gave exec
executeWith(exec) ==
  IF exec.threw THEN exec
  ELSE IF hasErrors(exec.value)
    THEN [threw |-> FALSE, value |-> [errors |-> exec.value.errors]]
  ELSE executeData(exec.value,
         contextExecute(exec.value,
           getOperationRootType(exec.value.schema, exec.value.operation)))

\* execute(schema, document, root, context, variables, operation)
execute(schema, document, operation) ==
  executeWith(ExecutionContext(schema, document, operation))

(***************************************************************************)
(* The documents, schemas and operation names execute is called with.      *)
(***************************************************************************)
NameNode(value) == [kind |-> NodeKind.NAME, value |-> value]

FieldNode(alias, name) ==
  [kind |-> NodeKind.FIELD,
   alias |-> alias,
   name |-> NameNode(name)]

SelectionSetNode(selections) ==
  [kind |-> NodeKind.SELECTION_SET, selections |-> selections]

FragmentSpreadNode(name) ==
  [kind |-> NodeKind.FRAGMENT_SPREAD, name |-> NameNode(name)]

InlineFragmentNode(selections) ==
  [kind |-> NodeKind.INLINE_FRAGMENT,
   selectionSet |-> SelectionSetNode(selections)]

OperationDefinitionNode(name, selections) ==
  [kind |-> NodeKind.OPERATION_DEFINITION, operation |-> "query",
   name |-> name,
   selectionSet |-> SelectionSetNode(selections)]

FragmentDefinitionNode(name, selections) ==
  [kind |-> NodeKind.FRAGMENT_DEFINITION, name |-> NameNode(name),
   selectionSet |-> SelectionSetNode(selections)]

\* the selection sets of fragments A and B: a field, a spread of A, a
\* spread of B
FragmentSelections ==
  {<<FieldNode(Undefined, <<97>>)>>,
   <<FragmentSpreadNode(<<65>>)>>,
   <<FragmentSpreadNode(<<66>>)>>}

\* the selection sets of operations: `{ a }`, `{ a b: a }`, `{ ...A }`,
\* `{ ...A ...A }`, `{ ...B }`, `{ ... { ...A } a }` and `{ ...C }`, C being
\* no fragment of the document
OperationSelections ==
  {<<FieldNode(Undefined, <<97>>)>>,
   <<FieldNode(Undefined, <<97>>), FieldNode(NameNode(<<98>>), <<97>>)>>,
   <<FragmentSpreadNode(<<65>>)>>,
   <<FragmentSpreadNode(<<65>>), FragmentSpreadNode(<<65>>)>>,
   <<FragmentSpreadNode(<<66>>)>>,
   <<InlineFragmentNode(<<FragmentSpreadNode(<<65>>)>>),
     FieldNode(Undefined, <<97>>)>>,
   <<FragmentSpreadNode(<<67>>)>>}

\* operation definitions: anonymous, named Q, named R
OperationDefinitions ==
  {OperationDefinitionNode(name, selections) :
     name \in {Undefined, NameNode(<<81>>), NameNode(<<82>>)},
     selections \in {<<FieldNode(Undefined, <<97>>)>>,
                     <<FragmentSpreadNode(<<65>>)>>}}

\* the sequences of up to n elements of a set
SeqsUpTo(set, n) == UNION {[1 .. k -> set] : k \in 0 .. n}

\* documents: up to MaxOps operation definitions, then fragments A and B
ExecDocuments ==
  {[kind |-> NodeKind.DOCUMENT,
    definitions |-> ops \o <<FragmentDefinitionNode(<<65>>, a),
                             FragmentDefinitionNode(<<66>>, b)>>] :
     ops \in SeqsUpTo(OperationDefinitions, MaxOps),
     a \in FragmentSelections, b \in FragmentSelections}

\* schemas: one with a query type alone, one with no root type
Schemas ==
  {[queryType |-> q, mutationType |-> Undefined,
    subscriptionType |-> Undefined] :
     q \in {Undefined, JsObject("GraphQLObjectType", [name |-> "Query"])}}

\* operation names: none, the empty one, Q and S
OperationNames ==
  {Undefined, StringValue(<<>>), StringValue(<<81>>), StringValue(<<83>>)}

\* new ExecutionContext(schema, document, ..., operationName)
NewExecutionContext ==
  /\ \E r \in {ExecutionContext(request.schema, request.document,
                                request.operationName)} :
       result' = [op |-> "ExecutionContext", threw |-> r.threw,
                  value |-> r.value]
  /\ UNCHANGED <<body, options, lexer, rawString, request>>

\* execute(schema, document, root, context, variables, operation)
Execute ==
  /\ \E r \in {execute(request.schema, request.document,
                       request.operationName)} :
       result' = [op |-> "execute", threw |-> r.threw, value |-> r.value]
  /\ UNCHANGED <<body, options, lexer, rawString, request>>

\* the fragments of a document, as the constructor collects them
FragmentsOf(document) ==
  forEachDefinition(document.definitions, 1, Undefined,
    [operation |-> Null, fragments |-> <<>>,
     hasMultipleAssumedOperations |-> FALSE]).fragments

\* collectFields(exeContext, type, selectionSet, Object.create(null),
\* Object.create(null)) on a selection set and the fragments of the document
CollectFields ==
  /\ \E c \in {collectFields([fragments |-> FragmentsOf(request.document)],
                             SelectionSetNode(request.selections),
                             NoFields, 1)} :
       result' = [op |-> "collectFields", threw |-> c.threw,
                  value |-> IF c.threw THEN c.error ELSE c.fields,
                  visitedFragmentNames |-> c.visitedFragmentNames,
                  expanded |-> c.expanded]
  /\ UNCHANGED <<body, options, lexer, rawString, request>>

\* the arguments of the calls: a schema, a document, an operation name and
\* the selection set collectFields is called on
InitExecute ==
  /\ body = <<>>
  /\ options = NoOptions
  /\ lexer = NewLexer
  /\ rawString = <<>>
  /\ request \in [schema : Schemas, document : ExecDocuments,
                  operationName : OperationNames,
                  selections : OperationSelections]
  /\ result = NoResult

NextExecute == NewExecutionContext \/ Execute \/ CollectFields

SpecExecute == InitExecute /\ [][NextExecute]_vars

(***************************************************************************)
(* Claims about execute.                                                   *)
(***************************************************************************)
\* the operation definitions of a document
OperationsOf(document) ==
  SelectSeq(document.definitions,
            LAMBDA d : d.kind = NodeKind.OPERATION_DEFINITION)

\* the operation definitions of a document that have the name operationName
OperationsNamed(document, operationName) ==
  SelectSeq(OperationsOf(document),
            LAMBDA d : /\ d.name # Undefined
                       /\ StrictEquals(operationName, d.name.value))

\* an error of the message text is among errors
Recorded(errors, text) ==
  \E i \in 1 .. Len(errors) : errors[i].message.text = text

\* the call threw the TypeError of `new GraphQLError`
ThrewNotAConstructor ==
  /\ result.threw
  /\ result.value.name = "TypeError"
  /\ result.value.message.text = "GraphQLError is not a constructor"

\* the context the constructor builds for the arguments of the last call
ContextOfCall ==
  ExecutionContext(request.schema, request.document, request.operationName)

\* C28: execute returns a result holding only `errors` exactly when the
\* ExecutionContext recorded at least one error while being constructed;
\* when no error was recorded it returns a result containing `data`.
C28_Original ==
  (result.op = "execute" /\ ~ContextOfCall.threw) =>
    /\ ~result.threw
    /\ DOMAIN result.value = {"errors"}
         <=> Len(ContextOfCall.value.errors) > 0
    /\ Len(ContextOfCall.value.errors) = 0 => "data" \in DOMAIN result.value

\* what the code does: when the constructor returns, it recorded no error,
\* hasErrors() is true and execute returns `{ errors: [] }` without data;
\* otherwise the constructor throws and so does execute.  No call returns
\* data.
C28_Observed ==
  result.op = "execute" =>
    IF ContextOfCall.threw
      THEN ThrewNotAConstructor
      ELSE /\ ContextOfCall.value.errors = <<>>
           /\ ~result.threw
           /\ result.value = [errors |-> <<>>]

\* execute was called with the name of an operation of the document
C28_Witness ==
  /\ result.op = "execute"
  /\ Len(OperationsNamed(request.document, request.operationName)) = 1
  /\ ~result.threw

\* C29: without operationName and with exactly one operation definition,
\* that definition becomes `operation` and no error is recorded; without
\* operationName and with several, 'Must provide operation name if query
\* contains multiple operations.' is recorded; with an operationName,
\* `operation` is the operation definition of that name, or 'Unknown
\* operation named' is recorded if there is none.
C29_Original ==
  result.op = "ExecutionContext" =>
    /\ ~result.threw
    /\ IF ~Truthy(request.operationName)
         THEN /\ Len(OperationsOf(request.document)) = 1 =>
                   /\ result.value.operation = OperationsOf(request.document)[1]
                   /\ result.value.errors = <<>>
              /\ Len(OperationsOf(request.document)) > 1 =>
                   Recorded(result.value.errors,
                     "Must provide operation name if query contains multiple operations.")
         ELSE IF Len(OperationsNamed(request.document, request.operationName)) > 0
           THEN /\ result.value.operation # Null
                /\ result.value.operation.name # Undefined
                /\ StrictEquals(request.operationName,
                                result.value.operation.name.value)
           ELSE Recorded(result.value.errors, "Unknown operation named \"%1\".")

\* what the code does: with an operationName that an operation definition
\* has, `operation` is the last definition of that name and no error is
\* recorded; in every other case, the cases without operationName included,
\* `operation` stays null and the constructor throws at `new GraphQLError`
C29_Observed ==
  result.op = "ExecutionContext" =>
    IF /\ Truthy(request.operationName)
       /\ Len(OperationsNamed(request.document, request.operationName)) > 0
      THEN /\ ~result.threw
           /\ result.value.operation =
                OperationsNamed(request.document, request.operationName)
                  [Len(OperationsNamed(request.document, request.operationName))]
           /\ result.value.errors = <<>>
      ELSE ThrewNotAConstructor

\* a context was constructed without operationName for a document of one
\* operation definition
C29_Witness ==
  /\ result.op = "ExecutionContext"
  /\ request.operationName = Undefined
  /\ Len(OperationsOf(request.document)) = 1

\* the number of times name is in the sequence names
Count(names, name) ==
  Cardinality({i \in 1 .. Len(names) : names[i] = name})

\* C30: collectFields terminates for every document and selection set,
\* cyclic fragment spreads included: within one collection the selection
\* set of each named fragment is expanded at most once.
C30_Original ==
  result.op = "collectFields" =>
    /\ ~(result.threw /\ result.value.name = "RangeError")
    /\ \A i \in 1 .. Len(result.expanded) :
         Count(result.expanded, result.expanded[i]) = 1

RECURSIVE Reaches(_, _, _)
\* the fragment named from spreads, in n steps at most, the fragment named to
Reaches(fragments, from, n) ==
  IF n = 0 \/ from \notin DOMAIN fragments THEN {from}
  ELSE {from} \cup
       UNION {Reaches(fragments, s.name.value, n - 1) :
                s \in {fragments[from].selectionSet.selections[i] :
                         i \in 1 .. Len(fragments[from].selectionSet.selections)}
                      \cap {FragmentSpreadNode(<<65>>), FragmentSpreadNode(<<66>>)}}

\* the fragment named name spreads itself, directly or through others
Cyclic(fragments, name) ==
  /\ name \in DOMAIN fragments
  /\ \E i \in 1 .. Len(fragments[name].selectionSet.selections) :
       LET s == fragments[name].selectionSet.selections[i] IN
       /\ s.kind = NodeKind.FRAGMENT_SPREAD
       /\ name \in Reaches(fragments, s.name.value, 2)

\* what the code does, the test of visitedFragmentNames being commented out:
\* a selection set that reaches a fragment which spreads itself exhausts the
\* stack, a spread of a fragment the document lacks throws a TypeError, and
\* a fragment spread twice is expanded twice
C30_Observed ==
  result.op = "collectFields" =>
    /\ (\E i \in 1 .. Len(result.expanded) :
          Cyclic(FragmentsOf(request.document), result.expanded[i]))
         <=> (result.threw /\ result.value.name = "RangeError")
    /\ (request.selections = <<FragmentSpreadNode(<<67>>)>>) =>
         (result.threw /\ result.value.name = "TypeError")
    /\ ( /\ request.selections
              = <<FragmentSpreadNode(<<65>>), FragmentSpreadNode(<<65>>)>>
         /\ ~result.threw ) =>
         Count(result.expanded, <<65>>) = 2

\* fields were collected from `{ ...A ...A }` and returned
C30_Witness ==
  /\ result.op = "collectFields"
  /\ request.selections
       = <<FragmentSpreadNode(<<65>>), FragmentSpreadNode(<<65>>)>>
  /\ ~result.threw

====
